---- MODULE Spec2Model ----
(***************************************************************************)
(* A model of ppproto: PPP over a serial byte stream.                      *)
(*                                                                         *)
(*   - the HDLC-like framing (crc16, FrameWriter, FrameReader),            *)
(*   - the wire codec (Packet, Options, OptionVal),                        *)
(*   - the option state machine (OptionFsm) with its LCP and IPv4CP        *)
(*     protocols, and the PAP state machine,                               *)
(*   - the phase orchestrator (PPP) and the facade (PPPoS).                *)
(*                                                                         *)
(* Bytes are the integers 0..255.  A slice is a sequence of bytes; the     *)
(* 0-based half-open range a..b of the source is SubSeq(s, a+1, b).  A u32 *)
(* is kept as the pair <<high 16 bits, low 16 bits>>.                      *)
(***************************************************************************)
EXTENDS Integers, Sequences, FiniteSets, TLC

VARIABLES
    config,     \* Config {username, password}
    phase,      \* PPP.phase
    opening,    \* PPP.opening
    lcp,        \* PPP.lcp    : OptionFsm<LCP>   [id, state, proto]
    pap,        \* PPP.pap    : PAP              [state, id]
    ipv4cp,     \* PPP.ipv4cp : OptionFsm<IPv4CP> [id, state, proto]
    fr,         \* PPPoS.frame_reader : [state, escape, len]
    rx_buf,     \* PPPoS.rx_buf : [some, buf]; buf holds the bytes written so far
    panicked,   \* "none", or the panic that aborted the program
    wire,       \* bytes sent by the peer and not yet accepted by consume
    call,       \* the last API call: its name, arguments and return value
    tx,         \* the packets handed to poll's tx closure during the last poll
    script,     \* frames the peer still has to send (stream and scenario runs)
    processed,  \* history: the frames taken by poll so far (stream and scenario runs)
    txlog,      \* history: every packet emitted so far (scenario runs)
    fw          \* a FrameWriter under test: [buf, cap, len, crc, asyncmap, err]

vars == <<config, phase, opening, lcp, pap, ipv4cp, fr, rx_buf, panicked,
          wire, call, tx, script, processed, txlog, fw>>

pppVars == <<phase, opening, lcp, pap, ipv4cp>>

(***************************************************************************)
(* Bounds of the model.                                                    *)
(***************************************************************************)
\* the peer sends frames as long as the program has sent at most MaxRequests
\* packets that take an id (Configure-Req, Authenticate-Req, Protocol-Rej)
MaxRequests == 3
\* capacity of the RX buffer handed to put_rx_buf
RxBufLen == 16
\* most data bytes behind the protocol field of a payload of the codec runs
MaxPayload == 2

(***************************************************************************)
(* Machine arithmetic.                                                     *)
(***************************************************************************)
Byte == 0..255

\* F(x), with x evaluated once, before F
Bind(x, F(_)) == CHOOSE y \in {F(v) : v \in {x}} : TRUE

RECURSIVE XorBits(_, _, _)
\* a ^ b over the low n bits
XorBits(a, b, n) ==
    IF n = 0 THEN 0
    ELSE (((a % 2) + (b % 2)) % 2) + 2 * XorBits(a \div 2, b \div 2, n - 1)

\* the 4-bit ^ table, evaluated once
XorNibble == [a \in 0..15 |-> [b \in 0..15 |-> XorBits(a, b, 4)]]

\* u8 ^ u8
Xor8(a, b) == 16 * XorNibble[a \div 16][b \div 16] + XorNibble[(a % 16)][(b % 16)]

\* u16 ^ u16
Xor16(a, b) == (256 * Xor8(a \div 256, b \div 256)) + Xor8(a % 256, b % 256)

\* u32 values as <<hi16, lo16>>
U32(hi, lo) == <<hi, lo>>

\* u32::from_be_bytes
u32_from_be_bytes(d) == <<(d[1] * 256) + d[2], (d[3] * 256) + d[4]>>

\* u32::to_be_bytes
u32_to_be_bytes(w) == <<w[1] \div 256, w[1] % 256, w[2] \div 256, w[2] % 256>>

\* w & (1 << b) != 0, for b in 0..31
u32_bit(w, b) ==
    IF b < 16 THEN (w[2] \div (2 ^ b)) % 2 = 1
    ELSE (w[1] \div (2 ^ (b - 16))) % 2 = 1

\* u16::from_be_bytes
u16_from_be_bytes(d) == (d[1] * 256) + d[2]

\* u16::to_be_bytes / to_le_bytes
u16_to_be_bytes(x) == <<x \div 256, x % 256>>
u16_to_le_bytes(x) == <<x % 256, x \div 256>>

(***************************************************************************)
(* pppos/crc.rs                                                            *)
(***************************************************************************)
\* a variant of the loop's turn where f keeps the bits that e << 4 shifts
\* out of a u8
crc16_byte_wide(seed, b) ==
    LET e == Xor8(seed % 256, b)
        f == Xor16(e, e * 16)
    IN  Xor16(Xor16(Xor16(seed \div 256, (f * 256) % 65536),
                    (f * 8) % 65536),
              f \div 16)

\* one turn of the loop of crc16
crc16_byte(seed, b) ==
    LET e == Xor8(seed % 256, b)                 \* seed as u8 ^ b
        f == Xor8(e, (e * 16) % 256)             \* e ^ (e << 4), in u8
    IN  Xor16(Xor16(Xor16(seed \div 256, (f * 256) % 65536),
                    (f * 8) % 65536),
              f \div 16)

RECURSIVE crc16_from(_, _, _)
\* (the test of seed's type makes TLC evaluate seed at every turn)
crc16_from(seed, data, i) ==
    IF seed \notin 0..65535 \/ i > Len(data) THEN seed
    ELSE crc16_from(crc16_byte(seed, data[i]), data, i + 1)

crc16(seed, data) == crc16_from(seed, data, 1)

(***************************************************************************)
(* pppos/frame_writer.rs                                                   *)
(* A writer is [buf, cap, len, crc, asyncmap, err]: buf are the len bytes  *)
(* written, cap is the length of the caller's buffer, err is TRUE once a   *)
(* call returned BufferFullError (the ? operator then skips the rest).     *)
(***************************************************************************)
AsyncmapDefault == U32(65535, 65535)

FrameWriter_new(cap) ==
    [buf |-> <<>>, cap |-> cap, len |-> 0, crc |-> 0,
     asyncmap |-> AsyncmapDefault, err |-> FALSE]

FrameWriter_new_with_asyncmap(cap, asyncmap) ==
    [buf |-> <<>>, cap |-> cap, len |-> 0, crc |-> 0,
     asyncmap |-> asyncmap, err |-> FALSE]

\* a variant of append_raw whose test lets the last chunk end one byte too far
append_raw_one_more(w, data) ==
    IF w.err THEN w
    ELSE IF w.len + Len(data) > w.cap + 1 THEN [w EXCEPT !.err = TRUE]
    ELSE [w EXCEPT !.buf = w.buf \o data, !.len = w.len + Len(data)]

append_raw(w, data) ==
    IF w.err THEN w
    ELSE IF w.len + Len(data) > w.cap THEN [w EXCEPT !.err = TRUE]
    ELSE [w EXCEPT !.buf = w.buf \o data, !.len = w.len + Len(data)]

\* a variant of the escape decision that leaves the escape byte 0x7d as it is
needs_escape_flag_only(asyncmap, b) ==
    IF b <= 31 THEN u32_bit(asyncmap, b)
    ELSE b = 126

\* a variant of the escape decision that escapes every byte below 0x20
needs_escape_every_control(asyncmap, b) ==
    IF b <= 31 THEN TRUE
    ELSE IF b = 125 THEN TRUE
    ELSE IF b = 126 THEN TRUE
    ELSE FALSE

\* the escape decision of append_escaped
needs_escape(asyncmap, b) ==
    IF b <= 31 THEN u32_bit(asyncmap, b)
    ELSE IF b = 125 THEN TRUE
    ELSE IF b = 126 THEN TRUE
    ELSE FALSE

RECURSIVE append_escaped_from(_, _, _)
append_escaped_from(w, data, i) ==
    IF w.err \/ i > Len(data) THEN w
    ELSE LET b == data[i]
         IN  append_escaped_from(
                 IF needs_escape(w.asyncmap, b)
                 THEN append_raw(w, <<125, Xor8(b, 32)>>)
                 ELSE append_raw(w, <<b>>),
                 data, i + 1)

append_escaped(w, data) == append_escaped_from(w, data, 1)

FrameWriter_start(w) ==
    IF w.err THEN w
    ELSE append_escaped(
             append_raw([w EXCEPT !.crc = crc16(65535, <<255, 3>>)], <<126, 255>>),
             <<3>>)

FrameWriter_append(w, data) ==
    IF w.err THEN w
    ELSE Bind(append_escaped(w, data),
              LAMBDA w1 : IF w1.err THEN w1 ELSE [w1 EXCEPT !.crc = crc16(w1.crc, data)])

FrameWriter_finish(w) ==
    IF w.err THEN w
    ELSE LET crc == Xor16(w.crc, 65535)
         IN  append_raw(append_escaped(w, u16_to_le_bytes(crc)), <<126>>)

\* start(); append(p); finish() on a buffer that is large enough
EncodeFrame(p, asyncmap) ==
    FrameWriter_finish(
        FrameWriter_append(
            FrameWriter_start(FrameWriter_new_with_asyncmap((4 * Len(p)) + 16, asyncmap)),
            p)).buf

(***************************************************************************)
(* frame_reader.rs                                                         *)
(* The reader is [state, escape, len]; its buffer is passed along.  The    *)
(* model keeps of the buffer the bytes below len: the bytes from len on    *)
(* are never read before they are written again.                           *)
(***************************************************************************)
FrameReader_new == [state |-> "Start", escape |-> FALSE, len |-> 0]

\* buf[len] = b
buf_store(buf, len, b) == Append(SubSeq(buf, 1, len), b)

\* a variant of the test of a closing flag that does not look at the FCS
frame_ok_no_fcs(r, buf) ==
    /\ r.len >= 3
    /\ buf[1] = 3

\* the test of a closing flag
frame_ok(r, buf) ==
    /\ r.len >= 3
    /\ buf[1] = 3
    /\ crc16(255, SubSeq(buf, 1, r.len)) = 61624

\* a variant of the loop's turn that takes an address byte for the start of a frame
consume_byte_no_flag(r, buf, cap, b) ==
    CASE r.state = "Start" ->
            [r |-> [r EXCEPT !.state = IF b = 126 THEN "Address"
                                       ELSE IF b = 255 THEN "Data" ELSE "Start"],
             buf |-> buf]
      [] r.state = "Address" ->
            [r |-> [r EXCEPT !.state = IF b = 255 THEN "Data"
                                       ELSE IF b = 126 THEN "Address"
                                       ELSE "Start"],
             buf |-> buf]
      [] r.state = "Data" /\ b = 126 ->
            [r |-> [r EXCEPT !.state = IF frame_ok(r, buf) THEN "Complete" ELSE "Address"],
             buf |-> buf]
      [] r.state = "Data" /\ b = 125 ->
            [r |-> [r EXCEPT !.escape = TRUE], buf |-> buf]
      [] r.state = "Data" /\ b \notin {125, 126} ->
            LET b2 == IF r.escape THEN Xor8(b, 32) ELSE b
                r2 == [r EXCEPT !.escape = FALSE]
            IN  IF r2.len >= cap
                THEN [r |-> [r2 EXCEPT !.state = "Start", !.len = 0], buf |-> <<>>]
                ELSE [r |-> [r2 EXCEPT !.len = r2.len + 1],
                      buf |-> buf_store(buf, r2.len, b2)]

\* one turn of the loop of consume, in a state other than Complete
consume_byte(r, buf, cap, b) ==
    CASE r.state = "Start" ->
            [r |-> [r EXCEPT !.state = IF b = 126 THEN "Address" ELSE "Start"],
             buf |-> buf]
      [] r.state = "Address" ->
            [r |-> [r EXCEPT !.state = IF b = 255 THEN "Data"
                                       ELSE IF b = 126 THEN "Address"
                                       ELSE "Start"],
             buf |-> buf]
      [] r.state = "Data" /\ b = 126 ->
            [r |-> [r EXCEPT !.state = IF frame_ok(r, buf) THEN "Complete" ELSE "Address"],
             buf |-> buf]
      [] r.state = "Data" /\ b = 125 ->
            [r |-> [r EXCEPT !.escape = TRUE], buf |-> buf]
      [] r.state = "Data" /\ b \notin {125, 126} ->
            LET b2 == IF r.escape THEN Xor8(b, 32) ELSE b
                r2 == [r EXCEPT !.escape = FALSE]
            IN  IF r2.len >= cap
                THEN [r |-> [r2 EXCEPT !.state = "Start", !.len = 0], buf |-> <<>>]
                ELSE [r |-> [r2 EXCEPT !.len = r2.len + 1],
                      buf |-> buf_store(buf, r2.len, b2)]

\* a variant of the loop's turn that swallows the bytes met in state Complete
consume_turn_swallow(s, cap, b) ==
    IF s.r.state = "Complete" THEN [s EXCEPT !.n = s.n + 1]
    ELSE LET t == consume_byte(s.r, s.buf, cap, b)
         IN  [r |-> t.r, buf |-> t.buf, n |-> s.n + 1, ret |-> FALSE]

\* one turn of the loop of consume on s = [r, buf, n, ret]: n bytes were taken so
\* far, ret is TRUE once the loop has returned (a byte met in state Complete)
consume_turn(s, cap, b) ==
    IF s.ret THEN s
    ELSE IF s.r.state = "Complete" THEN [s EXCEPT !.ret = TRUE]
    ELSE LET t == consume_byte(s.r, s.buf, cap, b)
         IN  [r |-> t.r, buf |-> t.buf, n |-> s.n + 1, ret |-> FALSE]

RECURSIVE consume_range(_, _, _, _, _)
\* the turns of the loop for data[lo..hi] (1-based, inclusive), in order; the
\* range is halved so that the evaluation does not nest once per byte
consume_range(s, cap, data, lo, hi) ==
    IF lo > hi THEN s
    ELSE IF lo = hi THEN consume_turn(s, cap, data[lo])
    ELSE LET mid == (lo + hi) \div 2
         IN  CHOOSE res \in {consume_range(s1, cap, data, mid + 1, hi) :
                             s1 \in {consume_range(s, cap, data, lo, mid)}} : TRUE

\* consume(data): the reader and buffer after the call, and n, the value returned
FrameReader_consume(r, buf, cap, data) ==
    consume_range([r |-> r, buf |-> buf, n |-> 0, ret |-> FALSE], cap, data, 1, Len(data))

\* a variant of receive() that leaves the reader in state Complete
FrameReader_receive_keep(r) ==
    IF r.state = "Complete"
    THEN [some |-> TRUE, start |-> 1, end |-> r.len - 2, r |-> r]
    ELSE [some |-> FALSE, start |-> 0, end |-> 0, r |-> r]

\* receive(): the range handed out (0-based, half-open) and the reader after it
FrameReader_receive(r) ==
    IF r.state = "Complete"
    THEN [some |-> TRUE, start |-> 1, end |-> r.len - 2,
          r |-> [r EXCEPT !.len = 0, !.state = "Address"]]
    ELSE [some |-> FALSE, start |-> 0, end |-> 0, r |-> r]

(***************************************************************************)
(* wire.rs                                                                 *)
(***************************************************************************)
MaxOptions == 6
MaxOptionLen == 4

\* a variant of From<u16> that does not know IPv4
ProtocolType_from_no_ipv4(x) ==
    CASE x = 49185 -> "LCP"
      [] x = 49187 -> "PAP"
      [] x = 32801 -> "IPv4CP"
      [] OTHER     -> "Unknown"

\* ProtocolType: From<u16> (any other value is Unknown) and `as u16`
ProtocolType_from(x) ==
    CASE x = 49185 -> "LCP"
      [] x = 49187 -> "PAP"
      [] x = 33    -> "IPv4"
      [] x = 32801 -> "IPv4CP"
      [] OTHER     -> "Unknown"

ProtocolType_into(p) ==
    CASE p = "LCP"    -> 49185
      [] p = "PAP"    -> 49187
      [] p = "IPv4"   -> 33
      [] p = "IPv4CP" -> 32801
      [] OTHER        -> 0

\* Code, kept as its discriminant: From<u8> (any other value is Unknown = 0)
Code_Unknown == 0
Code_ConfigureReq == 1
Code_ConfigureAck == 2
Code_ConfigureNack == 3
Code_ConfigureRej == 4
Code_TerminateReq == 5
Code_TerminateAck == 6
Code_CodeRej == 7
Code_ProtocolRej == 8
Code_EchoReq == 9
Code_EchoReply == 10
Code_DiscardReq == 11

\* a variant of Code::from that takes an Echo-Reply for an Echo-Req
Code_from_reply_as_req(b) ==
    IF b = 10 THEN Code_EchoReq ELSE IF b \in 1..11 THEN b ELSE Code_Unknown

Code_from(b) == IF b \in 1..11 THEN b ELSE Code_Unknown

\* OptionVal {code, data}; OptionVal::new fails (unwrap!) when data exceeds MaxOptionLen
OptionVal(code, data) == [code |-> code, data |-> data]
OptionVal_fits(data) == Len(data) <= MaxOptionLen
OptionVal_buffer_len(o) == 2 + Len(o.data)
OptionVal_emit(o) == <<o.code, (Len(o.data) + 2) % 256>> \o o.data

RECURSIVE Options_buffer_len(_)
Options_buffer_len(opts) ==
    IF opts = <<>> THEN 0
    ELSE OptionVal_buffer_len(Head(opts)) + Options_buffer_len(Tail(opts))

RECURSIVE Options_emit(_)
Options_emit(opts) ==
    IF opts = <<>> THEN <<>>
    ELSE OptionVal_emit(Head(opts)) \o Options_emit(Tail(opts))

\* Packet {proto, payload}.  payload is Raw(data) or PPP(code, id, body) and
\* body is Raw(data), PAP(user, pass) or Options(opts): one record shape for all.
Packet_Raw(proto, data) ==
    [proto |-> proto, kind |-> "Raw", code |-> 0, id |-> 0, body |-> "none",
     data |-> data, user |-> <<>>, pass |-> <<>>, opts |-> <<>>]

Packet_PPP_Raw(proto, code, id, data) ==
    [proto |-> proto, kind |-> "PPP", code |-> code, id |-> id, body |-> "Raw",
     data |-> data, user |-> <<>>, pass |-> <<>>, opts |-> <<>>]

Packet_PPP_PAP(proto, code, id, user, pass) ==
    [proto |-> proto, kind |-> "PPP", code |-> code, id |-> id, body |-> "PAP",
     data |-> <<>>, user |-> user, pass |-> pass, opts |-> <<>>]

Packet_PPP_Options(proto, code, id, opts) ==
    [proto |-> proto, kind |-> "PPP", code |-> code, id |-> id, body |-> "Options",
     data |-> <<>>, user |-> <<>>, pass |-> <<>>, opts |-> opts]

PPPPayload_buffer_len(pkt) ==
    CASE pkt.body = "Raw"     -> Len(pkt.data)
      [] pkt.body = "PAP"     -> 1 + Len(pkt.user) + 1 + Len(pkt.pass)
      [] pkt.body = "Options" -> Options_buffer_len(pkt.opts)

PPPPayload_emit(pkt) ==
    CASE pkt.body = "Raw"     -> pkt.data
      [] pkt.body = "PAP"     -> <<Len(pkt.user) % 256>> \o pkt.user
                                 \o <<Len(pkt.pass) % 256>> \o pkt.pass
      [] pkt.body = "Options" -> Options_emit(pkt.opts)

Payload_buffer_len(pkt) ==
    IF pkt.kind = "Raw" THEN Len(pkt.data)
    ELSE 1 + 1 + 2 + PPPPayload_buffer_len(pkt)

Payload_emit(pkt) ==
    IF pkt.kind = "Raw" THEN pkt.data
    ELSE <<pkt.code, pkt.id>>
         \o u16_to_be_bytes(((PPPPayload_buffer_len(pkt) % 65536) + 4) % 65536)
         \o PPPPayload_emit(pkt)

Packet_buffer_len(pkt) == 2 + Payload_buffer_len(pkt)

Packet_emit(pkt) ==
    u16_to_be_bytes(ProtocolType_into(pkt.proto)) \o Payload_emit(pkt)

(***************************************************************************)
(* ppp/lcp.rs                                                              *)
(***************************************************************************)
LCP_new ==
    [auth |-> "None", asyncmap_remote |-> U32(65535, 65535),
     asyncmap |-> U32(0, 0), asyncmap_rej |-> FALSE]

\* Option::from(u8) of lcp.rs
LCP_Option_from(code) ==
    IF code = 2 THEN "Asyncmap" ELSE IF code = 3 THEN "Auth" ELSE "Unknown"

\* a variant of peer_options_start that keeps auth
LCP_peer_options_start_keep(l) == l

LCP_peer_options_start(l) == [l EXCEPT !.auth = "None"]

\* the protocol after the call, the Verdict and the data of a Nack
LCP_peer_option_received(l, code, data) ==
    LET opt == LCP_Option_from(code)
    IN  CASE opt = "Unknown" -> [proto |-> l, verdict |-> "Rej", data |-> <<>>]
          [] opt = "Asyncmap" ->
                IF Len(data) = 4
                THEN [proto |-> [l EXCEPT !.asyncmap_remote = u32_from_be_bytes(data)],
                      verdict |-> "Ack", data |-> <<>>]
                ELSE [proto |-> l, verdict |-> "Rej", data |-> <<>>]
          [] opt = "Auth" ->
                IF data = <<192, 35>>
                THEN [proto |-> [l EXCEPT !.auth = "PAP"], verdict |-> "Ack", data |-> <<>>]
                ELSE [proto |-> l, verdict |-> "Nack", data |-> <<192, 35>>]

\* the (code, data) pairs handed to f, in order
LCP_own_options(l) ==
    IF ~l.asyncmap_rej THEN <<OptionVal(2, u32_to_be_bytes(l.asyncmap))>> ELSE <<>>

LCP_own_option_nacked(l, code, data, is_rej) ==
    IF LCP_Option_from(code) = "Asyncmap"
    THEN IF ~is_rej /\ Len(data) = 4
         THEN [l EXCEPT !.asyncmap = u32_from_be_bytes(data)]
         ELSE [l EXCEPT !.asyncmap_rej = TRUE]
    ELSE l

(***************************************************************************)
(* ppp/ipv4cp.rs                                                           *)
(***************************************************************************)
Ipv4Address_UNSPECIFIED == <<0, 0, 0, 0>>

is_unspecified(a) == a = Ipv4Address_UNSPECIFIED

\* OptionCode::from(u8)
OptionCode_from(code) ==
    CASE code = 3   -> "IpAddress"
      [] code = 129 -> "Dns1"
      [] code = 131 -> "Dns2"
      [] OTHER      -> "Unknown"

IpOption_new == [address |-> Ipv4Address_UNSPECIFIED, is_rejected |-> FALSE]

\* Option<Ipv4Address> as [some, address]
None == [some |-> FALSE, address |-> Ipv4Address_UNSPECIFIED]
Some(a) == [some |-> TRUE, address |-> a]

\* a variant of get that does not look at is_rejected
IpOption_get_any(o) ==
    IF is_unspecified(o.address) THEN None ELSE Some(o.address)

IpOption_get(o) ==
    IF o.is_rejected \/ is_unspecified(o.address) THEN None ELSE Some(o.address)

\* a variant of nacked that takes every Configure-Nack for a Configure-Rej
IpOption_nacked_as_rej(o, data, is_rej) == [o EXCEPT !.is_rejected = TRUE]

\* a variant of nacked where a 4-byte Configure-Nack takes the rejection back
IpOption_nacked_forgets(o, data, is_rej) ==
    IF is_rej THEN [o EXCEPT !.is_rejected = TRUE]
    ELSE IF Len(data) = 4 THEN [o EXCEPT !.address = data, !.is_rejected = FALSE]
    ELSE [o EXCEPT !.is_rejected = TRUE]

IpOption_nacked(o, data, is_rej) ==
    IF is_rej THEN [o EXCEPT !.is_rejected = TRUE]
    ELSE IF Len(data) = 4 THEN [o EXCEPT !.address = data]
    ELSE [o EXCEPT !.is_rejected = TRUE]

IPv4CP_new ==
    [peer_address |-> Ipv4Address_UNSPECIFIED, address |-> IpOption_new,
     dns_server_1 |-> IpOption_new, dns_server_2 |-> IpOption_new]

IPv4CP_status(c) ==
    [address |-> IpOption_get(c.address),
     peer_address |-> IF is_unspecified(c.peer_address) THEN None ELSE Some(c.peer_address),
     dns_servers |-> <<IpOption_get(c.dns_server_1), IpOption_get(c.dns_server_2)>>]

IPv4CP_peer_options_start(c) == c

IPv4CP_peer_option_received(c, code, data) ==
    IF OptionCode_from(code) = "IpAddress"
    THEN IF Len(data) = 4
         THEN [proto |-> [c EXCEPT !.peer_address = data], verdict |-> "Ack", data |-> <<>>]
         ELSE [proto |-> c, verdict |-> "Rej", data |-> <<>>]
    ELSE [proto |-> c, verdict |-> "Rej", data |-> <<>>]

IPv4CP_own_options(c) ==
    (IF ~c.address.is_rejected THEN <<OptionVal(3, c.address.address)>> ELSE <<>>)
    \o (IF ~c.dns_server_1.is_rejected THEN <<OptionVal(129, c.dns_server_1.address)>> ELSE <<>>)
    \o (IF ~c.dns_server_2.is_rejected THEN <<OptionVal(131, c.dns_server_2.address)>> ELSE <<>>)

IPv4CP_own_option_nacked(c, code, data, is_rej) ==
    LET opt == OptionCode_from(code)
    IN  CASE opt = "Unknown"   -> c
          [] opt = "IpAddress" -> [c EXCEPT !.address = IpOption_nacked(c.address, data, is_rej)]
          [] opt = "Dns1"      -> [c EXCEPT !.dns_server_1 = IpOption_nacked(c.dns_server_1, data, is_rej)]
          [] opt = "Dns2"      -> [c EXCEPT !.dns_server_2 = IpOption_nacked(c.dns_server_2, data, is_rej)]

(***************************************************************************)
(* ppp/option_fsm.rs                                                       *)
(* An OptionFsm<P> is [id, state, proto]; P is "LCP" or "IPv4CP" and       *)
(* selects the implementation of the trait Protocol.                       *)
(***************************************************************************)
protocol(P) == P

own_options(P, proto) ==
    IF P = "LCP" THEN LCP_own_options(proto) ELSE IPv4CP_own_options(proto)

own_option_nacked(P, proto, code, data, is_rej) ==
    IF P = "LCP" THEN LCP_own_option_nacked(proto, code, data, is_rej)
    ELSE IPv4CP_own_option_nacked(proto, code, data, is_rej)

peer_options_start(P, proto) ==
    IF P = "LCP" THEN LCP_peer_options_start(proto) ELSE IPv4CP_peer_options_start(proto)

peer_option_received(P, proto, code, data) ==
    IF P = "LCP" THEN LCP_peer_option_received(proto, code, data)
    ELSE IPv4CP_peer_option_received(proto, code, data)

OptionFsm_new(proto) == [id |-> 1, state |-> "Closed", proto |-> proto]

RECURSIVE parse_options(_)
\* the options handed to f, in order, and whether Err(MalformedError) is returned
parse_options(pkt) ==
    IF Len(pkt) = 0 THEN [opts |-> <<>>, err |-> FALSE]
    ELSE IF Len(pkt) < 2 THEN [opts |-> <<>>, err |-> TRUE]
    ELSE LET code == pkt[1]
             len == pkt[2]
         IN  IF Len(pkt) < len \/ len < 2 THEN [opts |-> <<>>, err |-> TRUE]
             ELSE LET rest == parse_options(SubSeq(pkt, len + 1, Len(pkt)))
                  IN  [opts |-> <<OptionVal(code, SubSeq(pkt, 3, len))>> \o rest.opts,
                       err |-> rest.err]

\* a variant of next_id that steps by two
next_id_by_two(fsm) == [fsm EXCEPT !.id = (fsm.id + 2) % 256]

\* next_id: wrapping_add(1)
next_id(fsm) == [fsm EXCEPT !.id = (fsm.id + 1) % 256]

\* results of the methods that build a packet: the fsm after, the packet, a panic
Sent(fsm, pkt) == [fsm |-> fsm, pkt |-> pkt, panic |-> "none"]

send_configure_request(P, fsm) ==
    LET opts == own_options(P, fsm.proto)
        f2 == next_id(fsm)
    IN  IF \E i \in 1..Len(opts) : ~OptionVal_fits(opts[i].data)
        THEN [fsm |-> fsm, pkt |-> Packet_Raw(P, <<>>), panic |-> "OptionVal::new"]
        ELSE IF Len(opts) > MaxOptions
        THEN [fsm |-> fsm, pkt |-> Packet_Raw(P, <<>>),
              panic |-> "tx ConfigureReq: too many options"]
        ELSE Sent(f2, Packet_PPP_Options(protocol(P), Code_ConfigureReq, f2.id, opts))

\* a variant of send_terminate_ack that takes the id of our last request
send_terminate_ack_own_id(P, fsm, id) ==
    Sent(fsm, Packet_PPP_Raw(protocol(P), Code_TerminateAck, fsm.id, <<>>))

send_terminate_ack(P, fsm, id) ==
    Sent(fsm, Packet_PPP_Raw(protocol(P), Code_TerminateAck, id, <<>>))

\* pkt[2] = EchoReply; Raw(&mut pkt[2..]).  pkt2 is pkt after the store.
send_echo_response(P, fsm, pkt) ==
    IF Len(pkt) < 3
    THEN [fsm |-> fsm, pkt |-> Packet_Raw(P, <<>>), panic |-> "index out of bounds",
          pkt2 |-> pkt]
    ELSE LET pkt2 == [pkt EXCEPT ![3] = Code_EchoReply]
         IN  [fsm |-> fsm, pkt |-> Packet_Raw(protocol(P), SubSeq(pkt2, 3, Len(pkt2))),
              panic |-> "none", pkt2 |-> pkt2]

\* a variant of send_protocol_reject that reuses the id of the last request
send_protocol_reject_same_id(P, fsm, pkt) ==
    Sent(fsm, Packet_PPP_Raw(protocol(P), Code_ProtocolRej, fsm.id, pkt))

send_protocol_reject(P, fsm, pkt) ==
    LET f2 == next_id(fsm)
    IN  Sent(f2, Packet_PPP_Raw(protocol(P), Code_ProtocolRej, f2.id, pkt))

\* Code of a Verdict
verdict_code(v) ==
    CASE v = "Ack" -> Code_ConfigureAck
      [] v = "Nack" -> Code_ConfigureNack
      [] v = "Rej" -> Code_ConfigureRej

RECURSIVE peer_options_fold(_, _, _)
\* the closure of received_configure_req over the parsed options, from acc =
\* [proto, code, opts, panic]
peer_options_fold(P, acc, opts) ==
    IF opts = <<>> \/ acc.panic # "none" THEN acc
    ELSE LET o == Head(opts)
             v == peer_option_received(P, acc.proto, o.code, o.data)
             ret_code == verdict_code(v.verdict)
             data == IF v.verdict = "Nack" THEN v.data ELSE o.data
             code2 == IF acc.code < ret_code THEN ret_code ELSE acc.code
             kept == IF acc.code < ret_code THEN <<>> ELSE acc.opts
         IN  peer_options_fold(P,
                 IF code2 = ret_code
                 THEN IF ~OptionVal_fits(data)
                      THEN [acc EXCEPT !.proto = v.proto, !.panic = "OptionVal::new"]
                      ELSE IF Len(kept) >= MaxOptions
                      THEN [acc EXCEPT !.proto = v.proto,
                                       !.panic = "rx ConfigureReq: too many options"]
                      ELSE [proto |-> v.proto, code |-> code2,
                            opts |-> Append(kept, OptionVal(o.code, data)),
                            panic |-> "none"]
                 ELSE [proto |-> v.proto, code |-> code2, opts |-> kept, panic |-> "none"],
                 Tail(opts))

received_configure_req(P, fsm, pkt) ==
    IF Len(pkt) < 4
    THEN [fsm |-> fsm, pkt |-> Packet_Raw(P, <<>>), panic |-> "index out of bounds"]
    ELSE IF Len(pkt) < 6
    THEN [fsm |-> fsm, pkt |-> Packet_Raw(P, <<>>), panic |-> "too short"]
    ELSE Bind(parse_options(SubSeq(pkt, 7, Len(pkt))), LAMBDA parsed :
         Bind(peer_options_fold(P,
                  [proto |-> peer_options_start(P, fsm.proto),
                   code |-> Code_ConfigureAck, opts |-> <<>>, panic |-> "none"],
                  parsed.opts), LAMBDA acc :
            IF acc.panic # "none"
            THEN [fsm |-> fsm, pkt |-> Packet_Raw(P, <<>>), panic |-> acc.panic]
            ELSE IF parsed.err
            THEN [fsm |-> fsm, pkt |-> Packet_Raw(P, <<>>),
                  panic |-> "unwrap of Err(MalformedError)"]
            ELSE Sent([fsm EXCEPT !.proto = acc.proto],
                      Packet_PPP_Options(protocol(P), acc.code, pkt[4], acc.opts))))

RECURSIVE own_options_nacked_fold(_, _, _, _)
\* own_option_nacked for every parsed option, in order
own_options_nacked_fold(P, proto, opts, is_rej) ==
    IF opts = <<>> THEN proto
    ELSE own_options_nacked_fold(P,
             own_option_nacked(P, proto, Head(opts).code, Head(opts).data, is_rej),
             Tail(opts), is_rej)

OptionFsm_open(P, fsm) ==
    IF fsm.state # "Closed"
    THEN [fsm |-> fsm, pkt |-> Packet_Raw(P, <<>>),
          panic |-> "assertion failed: self.state == State::Closed"]
    ELSE send_configure_request(P, [fsm EXCEPT !.state = "ReqSent"])

OptionFsm_close(fsm) == [fsm EXCEPT !.state = "Closed"]

\* results of handle: the fsm after, the packets handed to tx in order, a panic,
\* and the packet slice after the call (send_echo_response writes into it)
Handled(fsm, out, panic, pkt) == [fsm |-> fsm, tx |-> out, panic |-> panic, pkt |-> pkt]

\* a variant of the arm (Code::ConfigureReq, _) that emits the new
\* Configure-Req of state Opened before the response
handle_configure_req_request_first(P, fsm, pkt, pkt0) ==
    Bind(received_configure_req(P, fsm, pkt), LAMBDA resp :
    IF resp.panic # "none" THEN Handled(fsm, <<>>, resp.panic, pkt0)
    ELSE
    Bind(send_configure_request(P, resp.fsm), LAMBDA again :
    LET acked == resp.pkt.kind = "PPP" /\ resp.pkt.code = Code_ConfigureAck
        f1 == resp.fsm
    IN  CASE acked /\ f1.state = "ReqSent" ->
                Handled([f1 EXCEPT !.state = "AckSent"], <<resp.pkt>>, "none", pkt0)
          [] acked /\ f1.state = "AckReceived" ->
                Handled([f1 EXCEPT !.state = "Opened"], <<resp.pkt>>, "none", pkt0)
          [] acked /\ f1.state = "AckSent" ->
                Handled([f1 EXCEPT !.state = "AckSent"], <<resp.pkt>>, "none", pkt0)
          [] acked /\ f1.state = "Opened" ->
                Handled([again.fsm EXCEPT !.state = "AckSent"],
                        <<again.pkt, resp.pkt>>, again.panic, pkt0)
          [] ~acked /\ f1.state = "AckSent" ->
                Handled([f1 EXCEPT !.state = "ReqSent"], <<resp.pkt>>, "none", pkt0)
          [] ~acked /\ f1.state = "Opened" ->
                Handled([again.fsm EXCEPT !.state = "ReqSent"],
                        <<again.pkt, resp.pkt>>, again.panic, pkt0)
          [] OTHER ->
                Handled(f1, <<resp.pkt>>, "none", pkt0)))

\* the arm (Code::ConfigureReq, _) of handle
handle_configure_req(P, fsm, pkt, pkt0) ==
    Bind(received_configure_req(P, fsm, pkt), LAMBDA resp :
    IF resp.panic # "none" THEN Handled(fsm, <<>>, resp.panic, pkt0)
    ELSE
    Bind(send_configure_request(P, resp.fsm), LAMBDA again :
    LET acked == resp.pkt.kind = "PPP" /\ resp.pkt.code = Code_ConfigureAck
        f1 == resp.fsm
    IN  CASE acked /\ f1.state = "ReqSent" ->
                Handled([f1 EXCEPT !.state = "AckSent"], <<resp.pkt>>, "none", pkt0)
          [] acked /\ f1.state = "AckReceived" ->
                Handled([f1 EXCEPT !.state = "Opened"], <<resp.pkt>>, "none", pkt0)
          [] acked /\ f1.state = "AckSent" ->
                Handled([f1 EXCEPT !.state = "AckSent"], <<resp.pkt>>, "none", pkt0)
          [] acked /\ f1.state = "Opened" ->
                Handled([again.fsm EXCEPT !.state = "AckSent"],
                        <<resp.pkt, again.pkt>>, again.panic, pkt0)
          [] ~acked /\ f1.state = "AckSent" ->
                Handled([f1 EXCEPT !.state = "ReqSent"], <<resp.pkt>>, "none", pkt0)
          [] ~acked /\ f1.state = "Opened" ->
                Handled([again.fsm EXCEPT !.state = "ReqSent"],
                        <<resp.pkt, again.pkt>>, again.panic, pkt0)
          [] OTHER ->
                Handled(f1, <<resp.pkt>>, "none", pkt0)))

\* a variant of the arm (Code::ConfigureNack, _) | (Code::ConfigureRej, _)
\* that builds the new Configure-Req before the options are processed
handle_configure_nack_request_first(P, fsm, pkt, pkt0, is_rej) ==
    IF Len(pkt) < 6 THEN Handled(fsm, <<>>, "too short", pkt0)
    ELSE Bind(parse_options(SubSeq(pkt, 7, Len(pkt))), LAMBDA parsed :
         Bind(send_configure_request(P,
                  IF fsm.state = "AckSent" THEN fsm ELSE [fsm EXCEPT !.state = "ReqSent"]),
              LAMBDA again :
            IF parsed.err
            THEN Handled(fsm, <<>>, "unwrap of Err(MalformedError)", pkt0)
            ELSE Handled([again.fsm EXCEPT !.proto =
                              own_options_nacked_fold(P, fsm.proto, parsed.opts, is_rej)],
                         <<again.pkt>>, again.panic, pkt0)))

\* the arm (Code::ConfigureNack, _) | (Code::ConfigureRej, _) of handle
handle_configure_nack(P, fsm, pkt, pkt0, is_rej) ==
    IF Len(pkt) < 6 THEN Handled(fsm, <<>>, "too short", pkt0)
    ELSE Bind(parse_options(SubSeq(pkt, 7, Len(pkt))), LAMBDA parsed :
         Bind([fsm EXCEPT !.proto =
                   own_options_nacked_fold(P, fsm.proto, parsed.opts, is_rej)], LAMBDA f1 :
            IF parsed.err
            THEN Handled(f1, <<>>, "unwrap of Err(MalformedError)", pkt0)
            ELSE Bind(send_configure_request(P,
                          IF f1.state = "AckSent" THEN f1 ELSE [f1 EXCEPT !.state = "ReqSent"]),
                      LAMBDA again : Handled(again.fsm, <<again.pkt>>, again.panic, pkt0))))

\* a variant of handle that drops a Configure-Ack whose id is not the id of
\* the last request sent
handle_matching_ack(P, fsm, pkt0) ==
    IF Len(pkt0) < 6 THEN Handled(fsm, <<>>, "none", pkt0)
    ELSE IF Code_from(pkt0[3]) = Code_ConfigureAck /\ pkt0[4] # fsm.id
    THEN Handled(fsm, <<>>, "none", pkt0)
    ELSE
    LET code == Code_from(pkt0[3])
        id == pkt0[4]
        len == u16_from_be_bytes(SubSeq(pkt0, 5, 6))
        pkt == SubSeq(pkt0, 1, len + 2)
    IN  IF len + 2 > Len(pkt0) THEN Handled(fsm, <<>>, "none", pkt0)
        ELSE CASE code = Code_EchoReq /\ fsm.state = "Opened" ->
                    Bind(send_echo_response(P, fsm, pkt), LAMBDA e :
                         Handled(e.fsm, <<e.pkt>>, e.panic,
                                 e.pkt2 \o SubSeq(pkt0, len + 3, Len(pkt0))))
               [] code = Code_EchoReq /\ fsm.state # "Opened" ->
                    Handled(fsm, <<>>, "none", pkt0)
               [] code = Code_DiscardReq ->
                    Handled(fsm, <<>>, "none", pkt0)
               [] code \notin {Code_EchoReq, Code_DiscardReq} /\ fsm.state = "Closed" ->
                    Handled(fsm, <<send_terminate_ack(P, fsm, id).pkt>>, "none", pkt0)
               [] code = Code_ConfigureReq /\ fsm.state # "Closed" ->
                    handle_configure_req(P, fsm, pkt, pkt0)
               [] code = Code_ConfigureAck /\ fsm.state = "ReqSent" ->
                    Handled([fsm EXCEPT !.state = "AckReceived"], <<>>, "none", pkt0)
               [] code = Code_ConfigureAck /\ fsm.state = "AckSent" ->
                    Handled([fsm EXCEPT !.state = "Opened"], <<>>, "none", pkt0)
               [] code = Code_ConfigureAck /\ fsm.state \in {"AckReceived", "Opened"} ->
                    Bind(send_configure_request(P, [fsm EXCEPT !.state = "ReqSent"]),
                         LAMBDA again : Handled(again.fsm, <<again.pkt>>, again.panic, pkt0))
               [] code \in {Code_ConfigureNack, Code_ConfigureRej} /\ fsm.state # "Closed" ->
                    handle_configure_nack(P, fsm, pkt, pkt0, code = Code_ConfigureRej)
               [] code = Code_TerminateReq /\ fsm.state = "Opened" ->
                    Handled([fsm EXCEPT !.state = "Closed"],
                            <<send_terminate_ack(P, fsm, id).pkt>>, "none", pkt0)
               [] code = Code_TerminateReq /\ fsm.state \in {"ReqSent", "AckReceived", "AckSent"} ->
                    Handled([fsm EXCEPT !.state = "ReqSent"],
                            <<send_terminate_ack(P, fsm, id).pkt>>, "none", pkt0)
               [] OTHER ->
                    Handled(fsm, <<>>, "none", pkt0)

\* OptionFsm::handle
handle(P, fsm, pkt0) ==
    IF Len(pkt0) < 6 THEN Handled(fsm, <<>>, "none", pkt0)
    ELSE
    LET code == Code_from(pkt0[3])
        id == pkt0[4]
        len == u16_from_be_bytes(SubSeq(pkt0, 5, 6))
        pkt == SubSeq(pkt0, 1, len + 2)
    IN  IF len + 2 > Len(pkt0) THEN Handled(fsm, <<>>, "none", pkt0)
        ELSE CASE code = Code_EchoReq /\ fsm.state = "Opened" ->
                    Bind(send_echo_response(P, fsm, pkt), LAMBDA e :
                         Handled(e.fsm, <<e.pkt>>, e.panic,
                                 e.pkt2 \o SubSeq(pkt0, len + 3, Len(pkt0))))
               [] code = Code_EchoReq /\ fsm.state # "Opened" ->
                    Handled(fsm, <<>>, "none", pkt0)
               [] code = Code_DiscardReq ->
                    Handled(fsm, <<>>, "none", pkt0)
               [] code \notin {Code_EchoReq, Code_DiscardReq} /\ fsm.state = "Closed" ->
                    Handled(fsm, <<send_terminate_ack(P, fsm, id).pkt>>, "none", pkt0)
               [] code = Code_ConfigureReq /\ fsm.state # "Closed" ->
                    handle_configure_req(P, fsm, pkt, pkt0)
               [] code = Code_ConfigureAck /\ fsm.state = "ReqSent" ->
                    Handled([fsm EXCEPT !.state = "AckReceived"], <<>>, "none", pkt0)
               [] code = Code_ConfigureAck /\ fsm.state = "AckSent" ->
                    Handled([fsm EXCEPT !.state = "Opened"], <<>>, "none", pkt0)
               [] code = Code_ConfigureAck /\ fsm.state \in {"AckReceived", "Opened"} ->
                    Bind(send_configure_request(P, [fsm EXCEPT !.state = "ReqSent"]),
                         LAMBDA again : Handled(again.fsm, <<again.pkt>>, again.panic, pkt0))
               [] code \in {Code_ConfigureNack, Code_ConfigureRej} /\ fsm.state # "Closed" ->
                    handle_configure_nack(P, fsm, pkt, pkt0, code = Code_ConfigureRej)
               [] code = Code_TerminateReq /\ fsm.state = "Opened" ->
                    Handled([fsm EXCEPT !.state = "Closed"],
                            <<send_terminate_ack(P, fsm, id).pkt>>, "none", pkt0)
               [] code = Code_TerminateReq /\ fsm.state \in {"ReqSent", "AckReceived", "AckSent"} ->
                    Handled([fsm EXCEPT !.state = "ReqSent"],
                            <<send_terminate_ack(P, fsm, id).pkt>>, "none", pkt0)
               [] OTHER ->
                    Handled(fsm, <<>>, "none", pkt0)

(***************************************************************************)
(* ppp/pap.rs                                                              *)
(* A PAP is [state, id]; username and password are those of config.        *)
(***************************************************************************)
PAP_new == [state |-> "Closed", id |-> 1]

PAP_next_id(p) == [p EXCEPT !.id = (p.id + 1) % 256]

\* a variant of send_configure_request that sends the password for the username
PAP_send_configure_request_pass_only(p, cfg) ==
    LET p2 == PAP_next_id(p)
    IN  [fsm |-> p2,
         pkt |-> Packet_PPP_PAP("PAP", Code_ConfigureReq, p2.id, cfg.password, cfg.password),
         panic |-> "none"]

PAP_send_configure_request(p, cfg) ==
    LET p2 == PAP_next_id(p)
    IN  [fsm |-> p2,
         pkt |-> Packet_PPP_PAP("PAP", Code_ConfigureReq, p2.id, cfg.username, cfg.password),
         panic |-> "none"]

\* a variant of PAP::open that sends the request and leaves the state
PAP_open_no_state(p, cfg) ==
    IF p.state # "Closed"
    THEN [fsm |-> p, pkt |-> Packet_Raw("PAP", <<>>),
          panic |-> "assertion failed: self.state == State::Closed"]
    ELSE PAP_send_configure_request(p, cfg)

PAP_open(p, cfg) ==
    IF p.state # "Closed"
    THEN [fsm |-> p, pkt |-> Packet_Raw("PAP", <<>>),
          panic |-> "assertion failed: self.state == State::Closed"]
    ELSE PAP_send_configure_request([p EXCEPT !.state = "ReqSent"], cfg)

PAP_close(p) == [p EXCEPT !.state = "Closed"]

\* a variant of PAP::handle that takes no notice of an Authenticate-Ack
PAP_handle_no_ack(p, cfg, pkt0) ==
    IF Len(pkt0) < 6 THEN Handled(p, <<>>, "none", pkt0)
    ELSE
    LET code == Code_from(pkt0[3])
        len == u16_from_be_bytes(SubSeq(pkt0, 5, 6))
    IN  IF len > Len(pkt0) THEN Handled(p, <<>>, "none", pkt0)
        ELSE IF len + 2 > Len(pkt0)
        THEN Handled(p, <<>>, "range end index out of range for slice", pkt0)
        ELSE CASE code = Code_ConfigureNack /\ p.state = "ReqSent" ->
                    Bind(PAP_send_configure_request(p, cfg),
                         LAMBDA again : Handled(again.fsm, <<again.pkt>>, "none", pkt0))
               [] OTHER ->
                    Handled(p, <<>>, "none", pkt0)

\* PAP::handle
PAP_handle(p, cfg, pkt0) ==
    IF Len(pkt0) < 6 THEN Handled(p, <<>>, "none", pkt0)
    ELSE
    LET code == Code_from(pkt0[3])
        len == u16_from_be_bytes(SubSeq(pkt0, 5, 6))
    IN  IF len > Len(pkt0) THEN Handled(p, <<>>, "none", pkt0)
        ELSE IF len + 2 > Len(pkt0)
        THEN Handled(p, <<>>, "range end index out of range for slice", pkt0)
        ELSE CASE code = Code_ConfigureAck /\ p.state = "ReqSent" ->
                    Handled([p EXCEPT !.state = "Opened"], <<>>, "none", pkt0)
               [] code = Code_ConfigureNack /\ p.state = "ReqSent" ->
                    Bind(PAP_send_configure_request(p, cfg),
                         LAMBDA again : Handled(again.fsm, <<again.pkt>>, "none", pkt0))
               [] OTHER ->
                    Handled(p, <<>>, "none", pkt0)

(***************************************************************************)
(* ppp/mod.rs                                                              *)
(* A PPP is [phase, opening, lcp, pap, ipv4cp].                            *)
(***************************************************************************)
PhaseOrd(p) ==
    CASE p = "Dead" -> 0
      [] p = "Establish" -> 1
      [] p = "Auth" -> 2
      [] p = "Network" -> 3
      [] p = "Open" -> 4

PPP_new ==
    [phase |-> "Dead", opening |-> FALSE, lcp |-> OptionFsm_new(LCP_new),
     pap |-> PAP_new, ipv4cp |-> OptionFsm_new(IPv4CP_new)]

\* Status {phase, ipv4}; ipv4 is [some, status]
PPP_status(p) ==
    [phase |-> p.phase,
     ipv4 |-> IF p.ipv4cp.state = "Opened"
              THEN [some |-> TRUE, status |-> IPv4CP_status(p.ipv4cp.proto)]
              ELSE [some |-> FALSE, status |-> IPv4CP_status(IPv4CP_new)]]

\* a variant of open() that does not look at the phase
PPP_open_any_phase(p) ==
    [ppp |-> [p EXCEPT !.phase = "Establish", !.opening = TRUE], ok |-> TRUE]

\* open(): the PPP after the call and whether Ok(()) is returned
PPP_open(p) ==
    IF p.phase = "Dead"
    THEN [ppp |-> [p EXCEPT !.phase = "Establish", !.opening = TRUE], ok |-> TRUE]
    ELSE [ppp |-> p, ok |-> FALSE]

\* results of received and poll: the PPP after, the packets handed to tx, a
\* panic, the packet slice after the call, and which sub-FSM got the packet
Stepped(p, out, panic, pkt, to) ==
    [ppp |-> p, tx |-> out, panic |-> panic, pkt |-> pkt, to |-> to]

PPP_received(p, cfg, pkt) ==
    LET proto == ProtocolType_from(u16_from_be_bytes(SubSeq(pkt, 1, 2)))
    IN  CASE proto = "LCP" ->
                Bind(handle("LCP", p.lcp, pkt), LAMBDA h :
                     Stepped([p EXCEPT !.lcp = h.fsm], h.tx, h.panic, h.pkt, "LCP"))
          [] proto = "PAP" ->
                Bind(PAP_handle(p.pap, cfg, pkt), LAMBDA h :
                     Stepped([p EXCEPT !.pap = h.fsm], h.tx, h.panic, h.pkt, "PAP"))
          [] proto = "IPv4" ->
                Stepped(p, <<>>, "not yet implemented", pkt, "none")
          [] proto = "IPv4CP" ->
                Bind(handle("IPv4CP", p.ipv4cp, pkt), LAMBDA h :
                     Stepped([p EXCEPT !.ipv4cp = h.fsm], h.tx, h.panic, h.pkt, "IPv4CP"))
          [] proto = "Unknown" ->
                Bind(send_protocol_reject("LCP", p.lcp, pkt), LAMBDA r :
                     Stepped([p EXCEPT !.lcp = r.fsm], <<r.pkt>>, "none", pkt, "none"))

\* a variant of the arm Phase::Establish that leaves PAP and IPv4CP as they are
\* while LCP is not Opened
PPP_poll_establish_no_close(p, cfg) ==
    Bind(OptionFsm_open("LCP", p.lcp), LAMBDA o :
    LET closed == p.lcp.state = "Closed"
        p1 == IF closed THEN [p EXCEPT !.lcp = o.fsm, !.opening = FALSE] ELSE p
        tx1 == IF closed THEN <<o.pkt>> ELSE <<>>
    IN  IF closed /\ o.panic # "none" THEN Stepped(p, <<>>, o.panic, <<>>, "none")
        ELSE IF p1.lcp.state = "Opened"
        THEN IF p1.lcp.proto.auth = "None"
             THEN Bind(OptionFsm_open("IPv4CP", p1.ipv4cp), LAMBDA i :
                       IF i.panic # "none" THEN Stepped(p1, tx1, i.panic, <<>>, "none")
                       ELSE Stepped([p1 EXCEPT !.ipv4cp = i.fsm, !.phase = "Network"],
                                    Append(tx1, i.pkt), "none", <<>>, "none"))
             ELSE Bind(PAP_open(p1.pap, cfg), LAMBDA a :
                       IF a.panic # "none" THEN Stepped(p1, tx1, a.panic, <<>>, "none")
                       ELSE Stepped([p1 EXCEPT !.pap = a.fsm, !.phase = "Auth"],
                                    Append(tx1, a.pkt), "none", <<>>, "none"))
        ELSE Stepped(p1, tx1, "none", <<>>, "none"))

\* a variant of the arm Phase::Establish that goes to the network phase
\* whatever LCP.auth says
PPP_poll_establish_no_auth(p, cfg) ==
    Bind(OptionFsm_open("LCP", p.lcp), LAMBDA o :
    LET closed == p.lcp.state = "Closed"
        p1 == IF closed THEN [p EXCEPT !.lcp = o.fsm, !.opening = FALSE] ELSE p
        tx1 == IF closed THEN <<o.pkt>> ELSE <<>>
    IN  IF closed /\ o.panic # "none" THEN Stepped(p, <<>>, o.panic, <<>>, "none")
        ELSE IF p1.lcp.state = "Opened"
        THEN Bind(OptionFsm_open("IPv4CP", p1.ipv4cp), LAMBDA i :
                  IF i.panic # "none" THEN Stepped(p1, tx1, i.panic, <<>>, "none")
                  ELSE Stepped([p1 EXCEPT !.ipv4cp = i.fsm, !.phase = "Network"],
                               Append(tx1, i.pkt), "none", <<>>, "none"))
        ELSE Stepped([p1 EXCEPT
                         !.pap = IF p1.pap.state # "Closed" THEN PAP_close(p1.pap) ELSE p1.pap,
                         !.ipv4cp = IF p1.ipv4cp.state # "Closed"
                                    THEN OptionFsm_close(p1.ipv4cp) ELSE p1.ipv4cp],
                     tx1, "none", <<>>, "none"))

\* the arm Phase::Establish of poll
PPP_poll_establish(p, cfg) ==
    Bind(OptionFsm_open("LCP", p.lcp), LAMBDA o :
    LET closed == p.lcp.state = "Closed"
        p1 == IF closed THEN [p EXCEPT !.lcp = o.fsm, !.opening = FALSE] ELSE p
        tx1 == IF closed THEN <<o.pkt>> ELSE <<>>
    IN  IF closed /\ o.panic # "none" THEN Stepped(p, <<>>, o.panic, <<>>, "none")
        ELSE IF p1.lcp.state = "Opened"
        THEN IF p1.lcp.proto.auth = "None"
             THEN Bind(OptionFsm_open("IPv4CP", p1.ipv4cp), LAMBDA i :
                       IF i.panic # "none" THEN Stepped(p1, tx1, i.panic, <<>>, "none")
                       ELSE Stepped([p1 EXCEPT !.ipv4cp = i.fsm, !.phase = "Network"],
                                    Append(tx1, i.pkt), "none", <<>>, "none"))
             ELSE Bind(PAP_open(p1.pap, cfg), LAMBDA a :
                       IF a.panic # "none" THEN Stepped(p1, tx1, a.panic, <<>>, "none")
                       ELSE Stepped([p1 EXCEPT !.pap = a.fsm, !.phase = "Auth"],
                                    Append(tx1, a.pkt), "none", <<>>, "none"))
        ELSE Stepped([p1 EXCEPT
                         !.pap = IF p1.pap.state # "Closed" THEN PAP_close(p1.pap) ELSE p1.pap,
                         !.ipv4cp = IF p1.ipv4cp.state # "Closed"
                                    THEN OptionFsm_close(p1.ipv4cp) ELSE p1.ipv4cp],
                     tx1, "none", <<>>, "none"))

\* a variant of the match on self.phase whose arm Phase::Auth does not wait for PAP
PPP_poll_phase_no_wait(p, cfg) ==
    CASE p.phase = "Establish" -> PPP_poll_establish(p, cfg)
      [] p.phase = "Auth" ->
            Bind(OptionFsm_open("IPv4CP", p.ipv4cp), LAMBDA i :
                 Stepped([p EXCEPT !.phase = "Network", !.ipv4cp = i.fsm],
                         <<i.pkt>>, i.panic, <<>>, "none"))
      [] p.phase = "Network" ->
            Stepped(IF p.ipv4cp.state = "Opened" THEN [p EXCEPT !.phase = "Open"] ELSE p,
                    <<>>, "none", <<>>, "none")
      [] OTHER -> Stepped(p, <<>>, "none", <<>>, "none")

\* the match on self.phase of poll
PPP_poll_phase(p, cfg) ==
    CASE p.phase = "Dead" -> Stepped(p, <<>>, "none", <<>>, "none")
      [] p.phase = "Establish" -> PPP_poll_establish(p, cfg)
      [] p.phase = "Auth" ->
            IF p.pap.state = "Opened"
            THEN Bind(OptionFsm_open("IPv4CP", p.ipv4cp), LAMBDA i :
                      IF i.panic # "none"
                      THEN Stepped([p EXCEPT !.phase = "Network"], <<>>, i.panic, <<>>, "none")
                      ELSE Stepped([p EXCEPT !.phase = "Network", !.ipv4cp = i.fsm],
                                   <<i.pkt>>, "none", <<>>, "none"))
            ELSE Stepped([p EXCEPT !.ipv4cp = IF p.ipv4cp.state # "Closed"
                                              THEN OptionFsm_close(p.ipv4cp) ELSE p.ipv4cp],
                         <<>>, "none", <<>>, "none")
      [] p.phase = "Network" ->
            Stepped(IF p.ipv4cp.state = "Opened" THEN [p EXCEPT !.phase = "Open"] ELSE p,
                    <<>>, "none", <<>>, "none")
      [] p.phase = "Open" -> Stepped(p, <<>>, "none", <<>>, "none")

\* a variant of poll whose final check resets the phase whenever LCP is not Opened
PPP_poll_reset_unopened(p, cfg) ==
    Bind(PPP_poll_phase(p, cfg), LAMBDA s :
         IF s.panic # "none" THEN s
         ELSE IF s.ppp.lcp.state # "Opened" /\ ~s.ppp.opening
         THEN [s EXCEPT !.ppp.phase = "Dead"]
         ELSE s)

\* PPP::poll
\* a variant of poll with a retransmission: an LCP request still unanswered is
\* sent again by a poll that has nothing else to send
PPP_poll_resend(p, cfg) ==
    Bind(PPP_poll_phase(p, cfg), LAMBDA s :
         IF s.panic # "none" THEN s
         ELSE IF s.ppp.lcp.state = "Closed" /\ ~s.ppp.opening
         THEN [s EXCEPT !.ppp.phase = "Dead"]
         ELSE IF s.ppp.lcp.state = "ReqSent" /\ s.tx = <<>>
         THEN Bind(send_configure_request("LCP", s.ppp.lcp), LAMBDA r :
                   [s EXCEPT !.ppp.lcp = r.fsm, !.tx = <<r.pkt>>])
         ELSE s)

\* a variant of poll without the final check that drops the phase to Dead
PPP_poll_no_drop(p, cfg) == PPP_poll_phase(p, cfg)

PPP_poll(p, cfg) ==
    Bind(PPP_poll_phase(p, cfg), LAMBDA s :
         IF s.panic # "none" THEN s
         ELSE IF s.ppp.lcp.state = "Closed" /\ ~s.ppp.opening
         THEN [s EXCEPT !.ppp.phase = "Dead"]
         ELSE s)

(***************************************************************************)
(* pppos/mod.rs                                                            *)
(***************************************************************************)
\* length of the staging buffer of poll's tx closure
StagingLen == 128
\* length of the tx_buf handed to poll
TxBufLen == 256

\* the PPP held by the PPPoS
ThePPP ==
    [phase |-> phase, opening |-> opening, lcp |-> lcp, pap |-> pap, ipv4cp |-> ipv4cp]

\* the tx closure of poll, on [w, panic]
tx_closure(s, pkt) ==
    IF s.panic # "none" THEN s
    ELSE IF Packet_buffer_len(pkt) > StagingLen
    THEN [s EXCEPT !.panic = "assertion failed: len <= buf.len()"]
    ELSE Bind(FrameWriter_finish(FrameWriter_append(FrameWriter_start(s.w),
                                                    Packet_emit(pkt))),
              LAMBDA w1 : IF w1.err THEN [s EXCEPT !.panic = "unwrap of Err(BufferFullError)"]
                          ELSE [s EXCEPT !.w = w1])

RECURSIVE tx_all_last_first(_, _)
\* a variant of the calls of the tx closure that writes the last packet first
tx_all_last_first(s, pkts) ==
    IF pkts = <<>> THEN s
    ELSE tx_closure(tx_all_last_first(s, Tail(pkts)), Head(pkts))

RECURSIVE tx_all(_, _)
\* the calls of the tx closure for pkts, in order
tx_all(s, pkts) ==
    IF pkts = <<>> THEN s ELSE tx_all(tx_closure(s, Head(pkts)), Tail(pkts))

\* the record kept of an API call
Call(op) ==
    [op |-> op, ok |-> TRUE, kind |-> "none", n |-> 0, start |-> 0, end |-> 0,
     buf |-> <<>>, data |-> <<>>, out |-> <<>>, to |-> "none", stepped |-> FALSE]

\* poll, from the point where a packet that is not IPv4 was received (had = TRUE)
\* or where nothing was received: the outcome [ppp, tx, panic, to, w]
poll_rest(p, cfg, had, pkt, cap) ==
    Bind(IF had THEN PPP_received(p, cfg, pkt) ELSE Stepped(p, <<>>, "none", pkt, "none"),
         LAMBDA r :
    Bind(tx_all([w |-> FrameWriter_new(cap), panic |-> "none"], r.tx), LAMBDA s1 :
    IF s1.panic # "none" \/ r.panic # "none"
    THEN [ppp |-> r.ppp, tx |-> r.tx, to |-> r.to, w |-> s1.w,
          panic |-> IF s1.panic # "none" THEN s1.panic ELSE r.panic]
    ELSE
    Bind(PPP_poll(r.ppp, cfg), LAMBDA q :
    Bind(tx_all(s1, q.tx), LAMBDA s2 :
         [ppp |-> q.ppp, tx |-> r.tx \o q.tx, to |-> r.to, w |-> s2.w,
          panic |-> IF s2.panic # "none" THEN s2.panic ELSE q.panic]))))

(***************************************************************************)
(* The peer: the frames it may send, as the bytes between the control      *)
(* field and the FCS.                                                      *)
(***************************************************************************)
\* a control packet: protocol, code, id, length field, body
Ctl(proto, code, id, len, body) == proto \o <<code, id>> \o u16_to_be_bytes(len) \o body

PLcp == <<192, 33>>
PPap == <<192, 35>>
PIpv4cp == <<128, 33>>

\* well-formed frames
GoodFrames ==
    << Ctl(PLcp, 1, 1, 4, <<>>),                         \* LCP Configure-Req, no option
       Ctl(PLcp, 1, 1, 8, <<3, 4, 192, 35>>),            \* LCP Configure-Req, Auth = PAP
       Ctl(PLcp, 1, 1, 8, <<1, 4, 5, 220>>),             \* LCP Configure-Req, MRU
       Ctl(PLcp, 2, 1, 4, <<>>),                         \* LCP Configure-Ack
       Ctl(PLcp, 4, 1, 10, <<2, 6, 0, 0, 0, 0>>),        \* LCP Configure-Rej, Asyncmap
       Ctl(PLcp, 5, 1, 4, <<>>),                         \* LCP Terminate-Req
       Ctl(PLcp, 9, 1, 8, <<0, 0, 0, 0>>),               \* LCP Echo-Req
       Ctl(PPap, 2, 1, 5, <<0>>),                        \* PAP Authenticate-Ack
       Ctl(PPap, 3, 1, 5, <<0>>),                        \* PAP Authenticate-Nak
       Ctl(PIpv4cp, 1, 1, 10, <<3, 6, 10, 0, 0, 1>>),    \* IPv4CP Configure-Req
       Ctl(PIpv4cp, 2, 1, 4, <<>>),                      \* IPv4CP Configure-Ack
       Ctl(PIpv4cp, 3, 1, 10, <<3, 6, 10, 0, 0, 2>>),    \* IPv4CP Configure-Nack
       <<0, 33, 69, 0>>,                                 \* an IPv4 packet
       <<0, 87, 1>> >>                                   \* an unknown protocol

\* malformed control packets of protocol proto
BadFrames(proto) ==
    << proto \o <<1, 1, 0>>,                             \* shorter than 6 bytes
       Ctl(proto, 1, 1, 5, <<>>),                        \* length + 2 > frame length
       Ctl(proto, 2, 1, 2, <<>>),                        \* length + 2 < 6
       Ctl(proto, 1, 1, 6, <<3, 1>>),                    \* option length < 2
       Ctl(proto, 3, 1, 7, <<3, 4, 192>>) >>             \* option runs past the end

PeerFrames == GoodFrames \o BadFrames(PLcp) \o BadFrames(PPap) \o BadFrames(PIpv4cp)

\* the frames on the wire
PeerWire == [i \in DOMAIN PeerFrames |-> EncodeFrame(PeerFrames[i], AsyncmapDefault)]

\* the configurations the program is built with
Configs == { [username |-> <<117>>, password |-> <<112, 119>>] }

(***************************************************************************)
(* The state after PPPoS::new(config).                                     *)
(***************************************************************************)
InitPPPoS ==
    /\ config \in Configs
    /\ phase = PPP_new.phase
    /\ opening = PPP_new.opening
    /\ lcp = PPP_new.lcp
    /\ pap = PPP_new.pap
    /\ ipv4cp = PPP_new.ipv4cp
    /\ fr = FrameReader_new
    /\ rx_buf = [some |-> FALSE, buf |-> <<>>]
    /\ panicked = "none"
    /\ call = Call("new")
    /\ tx = <<>>

NoWriter == FrameWriter_new(0)

Init ==
    /\ InitPPPoS
    /\ wire = <<>>
    /\ script = <<>>
    /\ processed = <<>>
    /\ txlog = <<>>
    /\ fw = NoWriter

\* the packets sent so far that took an id
Requests == (lcp.id - 1) + (pap.id - 1) + (ipv4cp.id - 1)

(***************************************************************************)
(* The API of PPPoS.                                                       *)
(***************************************************************************)
\* PPPoS::open
OpenBody ==
    /\ panicked = "none"
    /\ LET o == PPP_open(ThePPP)
       IN  /\ phase' = o.ppp.phase
           /\ opening' = o.ppp.opening
           /\ lcp' = o.ppp.lcp
           /\ pap' = o.ppp.pap
           /\ ipv4cp' = o.ppp.ipv4cp
           /\ call' = [Call("open") EXCEPT !.ok = o.ok]
    /\ tx' = <<>>
    /\ UNCHANGED <<config, fr, rx_buf, panicked, wire>>

\* a variant of put_rx_buf that replaces the buffer it already holds
PutRxBufBody_replace ==
    /\ panicked = "none"
    /\ rx_buf' = [some |-> TRUE, buf |-> <<>>]
    /\ call' = Call("put_rx_buf")
    /\ tx' = <<>>
    /\ UNCHANGED <<config, pppVars, fr, wire, panicked>>

\* PPPoS::put_rx_buf, with a buffer of RxBufLen bytes
PutRxBufBody ==
    /\ panicked = "none"
    /\ IF rx_buf.some
       THEN /\ panicked' = "called put_rx_buf when we already have a buffer."
            /\ UNCHANGED rx_buf
       ELSE /\ rx_buf' = [some |-> TRUE, buf |-> <<>>]
            /\ UNCHANGED panicked
    /\ call' = Call("put_rx_buf")
    /\ tx' = <<>>
    /\ UNCHANGED <<config, pppVars, fr, wire>>

\* PPPoS::consume(data), data being the first k bytes of the wire; the bytes
\* accepted leave the wire
ConsumeBody(k) ==
    /\ panicked = "none"
    /\ k \in 1..Len(wire)
    /\ IF ~rx_buf.some
       THEN /\ panicked' = "called consume() without an rx_buf"
            /\ call' = [Call("consume") EXCEPT !.data = SubSeq(wire, 1, k)]
            /\ UNCHANGED <<fr, rx_buf, wire>>
       ELSE \E c \in {FrameReader_consume(fr, rx_buf.buf, RxBufLen, SubSeq(wire, 1, k))} :
                /\ fr' = c.r
                /\ rx_buf' = [rx_buf EXCEPT !.buf = c.buf]
                /\ wire' = SubSeq(wire, c.n + 1, Len(wire))
                /\ call' = [Call("consume") EXCEPT !.data = SubSeq(wire, 1, k), !.n = c.n]
                /\ UNCHANGED panicked
    /\ tx' = <<>>
    /\ UNCHANGED <<config, pppVars>>

\* PPPoS::poll(tx_buf), with a tx_buf of cap bytes
PollBody(cap) ==
    /\ panicked = "none"
    /\ IF ~rx_buf.some
       THEN /\ panicked' = "called poll() without an rx_buf"
            /\ call' = [Call("poll") EXCEPT !.kind = "panic"]
            /\ tx' = <<>>
            /\ UNCHANGED <<pppVars, fr, rx_buf>>
       ELSE
       LET rcv == FrameReader_receive(fr)
           pkt == SubSeq(rx_buf.buf, rcv.start + 1, rcv.end)
       IN  IF rcv.some /\ Len(pkt) < 2
           THEN /\ panicked' = "range end index 2 out of range for slice"
                /\ call' = [Call("poll") EXCEPT !.kind = "panic"]
                /\ tx' = <<>>
                /\ UNCHANGED <<pppVars, fr, rx_buf>>
           ELSE IF rcv.some /\ ProtocolType_from(u16_from_be_bytes(SubSeq(pkt, 1, 2))) = "IPv4"
           THEN /\ fr' = rcv.r
                /\ rx_buf' = [some |-> FALSE, buf |-> <<>>]
                /\ call' = [Call("poll") EXCEPT !.kind = "Received", !.buf = rx_buf.buf,
                                                !.start = rcv.start + 2, !.end = rcv.end]
                /\ tx' = <<>>
                /\ UNCHANGED <<pppVars, panicked>>
           ELSE \E o \in {poll_rest(ThePPP, config, rcv.some, pkt, cap)} :
                /\ fr' = rcv.r
                /\ rx_buf' = [rx_buf EXCEPT !.buf = SubSeq(rx_buf.buf, 1, rcv.r.len)]
                /\ phase' = o.ppp.phase
                /\ opening' = o.ppp.opening
                /\ lcp' = o.ppp.lcp
                /\ pap' = o.ppp.pap
                /\ ipv4cp' = o.ppp.ipv4cp
                /\ tx' = o.tx
                /\ panicked' = o.panic
                /\ call' = [Call("poll") EXCEPT
                               !.kind = IF o.panic # "none" THEN "panic"
                                        ELSE IF o.w.len = 0 THEN "None" ELSE "Transmit",
                               !.n = o.w.len, !.out = o.w.buf, !.to = o.to,
                               !.data = IF rcv.some THEN pkt ELSE <<>>,
                               !.stepped = TRUE]
    /\ UNCHANGED <<config, wire>>

\* the peer puts frame number f on the wire, once the frame before it was taken
PeerSendBody(f) ==
    /\ panicked = "none"
    /\ Requests <= MaxRequests
    /\ wire = <<>>
    /\ fr.state # "Complete"
    /\ wire' = PeerWire[f]
    /\ call' = Call("peer_send")
    /\ tx' = <<>>
    /\ UNCHANGED <<config, pppVars, fr, rx_buf, panicked>>

(***************************************************************************)
(* Session runs: any order of API calls, the peer sending whole frames.    *)
(***************************************************************************)
histVars == <<script, processed, txlog, fw>>

Open == OpenBody /\ UNCHANGED histVars

PutRxBuf == PutRxBufBody /\ UNCHANGED histVars

Consume == ConsumeBody(Len(wire)) /\ UNCHANGED histVars

Poll == PollBody(TxBufLen) /\ UNCHANGED histVars

PeerSend == \E f \in DOMAIN PeerFrames : PeerSendBody(f) /\ UNCHANGED histVars

Next == Open \/ PutRxBuf \/ Consume \/ Poll \/ PeerSend

Spec == Init /\ [][Next]_vars

(***************************************************************************)
(* Stream runs: the peer's frames arrive as one byte stream that the       *)
(* caller hands to consume in chunks of any size, re-presenting what was   *)
(* not accepted.  script holds the frames of the stream, processed the     *)
(* frames that poll took.                                                  *)
(***************************************************************************)
\* most frames in a stream
MaxFrames == 3
\* longest chunk handed to consume, short of the whole remainder
MaxChunk == 3

\* the frames a stream is made of
StreamFrames ==
    { <<0, 33, 69, 0>>,                                  \* an IPv4 packet
      <<0, 33, 126>>,                                    \* an IPv4 packet, escaped on the wire
      Ctl(PLcp, 9, 1, 4, <<>>) }                         \* LCP Echo-Req

Streams == UNION { [1..n -> StreamFrames] : n \in 1..MaxFrames }

RECURSIVE StreamBytes(_)
\* the bytes of a stream of frames
StreamBytes(frames) ==
    IF frames = <<>> THEN <<>>
    ELSE EncodeFrame(Head(frames), AsyncmapDefault) \o StreamBytes(Tail(frames))

InitStream ==
    /\ InitPPPoS
    /\ script \in Streams
    /\ wire = StreamBytes(script)
    /\ processed = <<>>
    /\ txlog = <<>>
    /\ fw = NoWriter

\* the frame a poll took, as its record tells: the range handed out by
\* Received (behind its protocol field), or the packet given to PPP::received
Surfaced(c) ==
    IF c.kind = "Received" THEN << <<0, 33>> \o SubSeq(c.buf, c.start + 1, c.end) >>
    ELSE IF c.op = "poll" /\ c.data # <<>> THEN << c.data >>
    ELSE <<>>

OpenStream == OpenBody /\ UNCHANGED histVars

PutRxBufStream == PutRxBufBody /\ UNCHANGED histVars

ConsumeStream ==
    \E k \in (1..MaxChunk) \cup {Len(wire)} : ConsumeBody(k) /\ UNCHANGED histVars

PollStream ==
    /\ PollBody(TxBufLen)
    /\ processed' = processed \o Surfaced(call')
    /\ UNCHANGED <<script, txlog, fw>>

NextStream == OpenStream \/ PutRxBufStream \/ ConsumeStream \/ PollStream

SpecStream == InitStream /\ [][NextStream]_vars

(***************************************************************************)
(* Codec runs: a FrameWriter encodes the payload script[1] with some       *)
(* asyncmap, a fresh reader consumes the bytes written and hands out the   *)
(* frame.  call.op is the step made last.                                  *)
(***************************************************************************)
\* the bytes payloads are made of: NUL, XON, 0x21, the escaped forms 0x5d and
\* 0x5e, the escape byte and the flag
PayloadBytes == {0, 17, 33, 93, 94, 125, 126}

\* protocol field plus data
Payloads == UNION { [1..n -> PayloadBytes] : n \in 2..(2 + MaxPayload) }

\* escape every control character, none, or XON and XOFF
Asyncmaps == { U32(65535, 65535), U32(0, 0), U32(10, 0) }

\* length of the buffer handed to the FrameWriter
CodecBufLen == 32

InitCodec ==
    /\ InitPPPoS
    /\ script \in { <<p>> : p \in Payloads }
    /\ \E a \in Asyncmaps : fw = FrameWriter_new_with_asyncmap(CodecBufLen, a)
    /\ wire = <<>>
    /\ processed = <<>>
    /\ txlog = <<>>

codecRest == <<config, pppVars, panicked, tx, script, processed, txlog>>

WriterStart ==
    /\ call.op = "new"
    /\ fw' = FrameWriter_start(fw)
    /\ call' = [Call("start") EXCEPT !.ok = ~fw'.err]
    /\ UNCHANGED <<codecRest, fr, rx_buf, wire>>

WriterAppend ==
    /\ call.op = "start"
    /\ fw' = FrameWriter_append(fw, script[1])
    /\ call' = [Call("append") EXCEPT !.ok = ~fw'.err, !.data = script[1]]
    /\ UNCHANGED <<codecRest, fr, rx_buf, wire>>

\* finish(), after which the bytes written go on the wire
WriterFinish ==
    /\ call.op = "append"
    /\ fw' = FrameWriter_finish(fw)
    /\ call' = [Call("finish") EXCEPT !.ok = ~fw'.err, !.n = fw'.len]
    /\ wire' = fw'.buf
    /\ rx_buf' = [some |-> TRUE, buf |-> <<>>]
    /\ UNCHANGED <<codecRest, fr>>

ReaderConsume ==
    /\ call.op = "finish"
    /\ \E c \in {FrameReader_consume(fr, rx_buf.buf, RxBufLen, wire)} :
          /\ fr' = c.r
          /\ rx_buf' = [rx_buf EXCEPT !.buf = c.buf]
          /\ wire' = SubSeq(wire, c.n + 1, Len(wire))
          /\ call' = [Call("reader_consume") EXCEPT !.data = wire, !.n = c.n]
    /\ UNCHANGED <<codecRest, fw>>

ReaderReceive ==
    /\ call.op = "reader_consume"
    /\ \E r \in {FrameReader_receive(fr)} :
          /\ fr' = r.r
          /\ call' = [Call("reader_receive") EXCEPT
                         !.ok = r.some, !.start = r.start, !.end = r.end,
                         !.data = IF r.some THEN SubSeq(rx_buf.buf, r.start + 1, r.end)
                                  ELSE <<>>]
    /\ UNCHANGED <<codecRest, fw, rx_buf, wire>>

NextCodec == WriterStart \/ WriterAppend \/ WriterFinish \/ ReaderConsume \/ ReaderReceive

SpecCodec == InitCodec /\ [][NextCodec]_vars

(***************************************************************************)
(* Scenario runs: the peer sends the frames of a bring-up scenario in      *)
(* order, the driver calls the API in any order.                           *)
(***************************************************************************)
\* B, no authentication: LCP Configure-Req without options, Configure-Ack of our
\* LCP request, IPv4CP Configure-Nack assigning 10.0.0.2, Configure-Ack of our
\* second IPv4CP request
ScenarioB ==
    << Ctl(PLcp, 1, 1, 4, <<>>),
       Ctl(PLcp, 2, 2, 10, <<2, 6, 0, 0, 0, 0>>),
       Ctl(PIpv4cp, 3, 2, 10, <<3, 6, 10, 0, 0, 2>>),
       Ctl(PIpv4cp, 2, 3, 10, <<3, 6, 10, 0, 0, 2>>) >>

\* B followed by the peer's own IPv4CP Configure-Req, address 10.0.0.1
ScenarioBReq == ScenarioB \o << Ctl(PIpv4cp, 1, 1, 10, <<3, 6, 10, 0, 0, 1>>) >>

\* C, PAP: LCP Configure-Req with Auth-Protocol = PAP, Configure-Ack of our LCP
\* request, PAP Authenticate-Ack
ScenarioC ==
    << Ctl(PLcp, 1, 1, 8, <<3, 4, 192, 35>>),
       Ctl(PLcp, 2, 2, 10, <<2, 6, 0, 0, 0, 0>>),
       Ctl(PPap, 2, 2, 5, <<0>>) >>

Scenarios == {ScenarioB, ScenarioBReq, ScenarioC}

InitScenario ==
    /\ InitPPPoS
    /\ script \in Scenarios
    /\ wire = <<>>
    /\ processed = <<>>
    /\ txlog = <<>>
    /\ fw = NoWriter

\* the bytes of the packets handed to the tx closure
Emitted(pkts) == [i \in 1..Len(pkts) |-> Packet_emit(pkts[i])]

OpenScenario == OpenBody /\ UNCHANGED histVars

PutRxBufScenario == PutRxBufBody /\ UNCHANGED histVars

\* once open() was called, the peer puts the next frame of the scenario on the
\* wire when the frame before it was taken
PeerSendScenario ==
    /\ panicked = "none"
    /\ phase # "Dead"
    /\ script # <<>>
    /\ wire = <<>>
    /\ fr.state # "Complete"
    /\ wire' = EncodeFrame(Head(script), AsyncmapDefault)
    /\ script' = Tail(script)
    /\ call' = Call("peer_send")
    /\ tx' = <<>>
    /\ UNCHANGED <<config, pppVars, fr, rx_buf, panicked, processed, txlog, fw>>

ConsumeScenario ==
    \E k \in (1..MaxChunk) \cup {Len(wire)} : ConsumeBody(k) /\ UNCHANGED histVars

PollScenario ==
    /\ PollBody(TxBufLen)
    /\ processed' = processed \o Surfaced(call')
    /\ txlog' = txlog \o Emitted(tx')
    /\ UNCHANGED <<script, fw>>

NextScenario ==
    OpenScenario \/ PutRxBufScenario \/ PeerSendScenario \/ ConsumeScenario \/ PollScenario

SpecScenario == InitScenario /\ [][NextScenario]_vars

(***************************************************************************)
(* Machine runs: one OptionFsm<P>, P chosen at the start and kept in       *)
(* call.to, is driven by open, close and handle with the packets of        *)
(* FsmPackets.  The machine of LCP is in lcp, the one of IPv4CP in ipv4cp.  *)
(***************************************************************************)
\* requests a machine may send in a run
MaxFsmRequests == 3
\* options in a peer Configure-Req
MaxReqOptions == 3

\* ids of the peer's packets: the id of our first request and one far from it
FsmIds == {2, 255}

ProtoBytes(P) == IF P = "LCP" THEN PLcp ELSE PIpv4cp

\* options the peer may ask for: acked, nacked or rejected by P
PeerOptions(P) ==
    IF P = "LCP"
    THEN { <<2, 6, 0, 10, 0, 0>>,        \* Asyncmap: Ack
           <<3, 4, 192, 35>>,            \* Auth-Protocol PAP: Ack
           <<3, 5, 194, 35, 5>>,         \* Auth-Protocol CHAP: Nack
           <<1, 4, 5, 220>> }            \* MRU: Rej
    ELSE { <<3, 6, 10, 0, 0, 1>>,        \* IP-Address: Ack
           <<129, 6, 8, 8, 8, 8>>,       \* Primary-DNS: Rej
           <<3, 4, 10, 0>> }             \* IP-Address of 2 bytes: Rej

\* an option of more than MaxOptionLen data bytes: Quality-Protocol LQR of
\* LCP (RFC 1661, 6.3) and IP-Addresses of IPv4CP (RFC 1332, 3.1)
LongOption(P) ==
    IF P = "LCP" THEN <<4, 8, 192, 37, 0, 0, 0, 100>>
    ELSE <<1, 10, 10, 0, 0, 1, 10, 0, 0, 2>>

\* an acceptable option followed by an option of the wrong length: Asyncmap
\* of 2 bytes after Auth-Protocol PAP for LCP, an IP-Address of 3 bytes after
\* the peer's address for IPv4CP
ShortOption(P) ==
    IF P = "LCP" THEN <<3, 4, 192, 35, 2, 4, 0, 10>>
    ELSE <<3, 6, 10, 0, 0, 9, 3, 5, 10, 0, 0>>

\* MaxOptions + 1 options without data that neither protocol knows
SevenOptions == <<7, 2, 8, 2, 13, 2, 7, 2, 8, 2, 13, 2, 7, 2>>

RECURSIVE Flatten(_)
Flatten(ss) == IF ss = <<>> THEN <<>> ELSE Head(ss) \o Flatten(Tail(ss))

\* the option lists of up to MaxReqOptions options
OptionLists(P) ==
    { Flatten(l) : l \in UNION { [1..n -> PeerOptions(P)] : n \in 0..MaxReqOptions } }

\* the options of the peer's Configure-Nack and Configure-Rej: two options of
\* our request for IPv4CP, one of them followed by an unknown one for LCP
NackedOptions(P) ==
    IF P = "LCP" THEN <<2, 6, 0, 0, 0, 10, 1, 4, 5, 220>>
    ELSE <<3, 6, 10, 0, 0, 2, 129, 6, 8, 8, 8, 8>>

\* the packets handed to handle
FsmPackets(P) ==
    LET pb == ProtoBytes(P)
    IN  { Ctl(pb, 1, id, 4 + Len(b), b) : id \in FsmIds, b \in OptionLists(P) }
        \cup { Ctl(pb, code, id, 4, <<>>) : code \in {2, 5, 6, 7, 8, 10, 11, 12}, id \in FsmIds }
        \cup { Ctl(pb, code, id, 4 + Len(NackedOptions(P)), NackedOptions(P)) :
                 code \in {3, 4}, id \in FsmIds }
        \cup { Ctl(pb, 9, id, 8, <<1, 2, 3, 4>>) : id \in FsmIds }
        \cup { Ctl(pb, 1, 2, 4 + Len(LongOption(P)), LongOption(P)),
               Ctl(pb, 1, 2, 4 + Len(SevenOptions), SevenOptions) }
        \cup { Ctl(pb, 1, 2, 4 + Len(ShortOption(P)), ShortOption(P)) }
        \cup { Ctl(pb, 9, 1, 4, <<9, 9>>),           \* Echo-Req followed by padding
               Ctl(pb, 9, 1, 2, <<>>),               \* Echo-Req, length field 2
               Ctl(pb, 9, 1, 0, <<>>) }              \* Echo-Req, length field 0

\* the machine of the run
TheFsm == IF call.to = "LCP" THEN lcp ELSE ipv4cp

InitFsm ==
    /\ config \in Configs
    /\ phase = PPP_new.phase
    /\ opening = PPP_new.opening
    /\ lcp = OptionFsm_new(LCP_new)
    /\ pap = PPP_new.pap
    /\ ipv4cp = OptionFsm_new(IPv4CP_new)
    /\ fr = FrameReader_new
    /\ rx_buf = [some |-> FALSE, buf |-> <<>>]
    /\ panicked = "none"
    /\ tx = <<>>
    /\ \E P \in {"LCP", "IPv4CP"} : call = [Call("new") EXCEPT !.to = P]
    /\ wire = <<>>
    /\ script = <<>>
    /\ processed = <<>>
    /\ txlog = <<>>
    /\ fw = NoWriter

\* the machine becomes f, having handed the packets out to tx
FsmStep(op, pkt, f, out, panic) ==
    /\ lcp' = IF call.to = "LCP" THEN f ELSE lcp
    /\ ipv4cp' = IF call.to = "LCP" THEN ipv4cp ELSE f
    /\ tx' = out
    /\ panicked' = panic
    /\ call' = [Call(op) EXCEPT !.to = call.to, !.data = pkt]
    /\ UNCHANGED <<config, phase, opening, pap, fr, rx_buf, wire, histVars>>

\* OptionFsm::open
FsmOpen ==
    /\ panicked = "none"
    /\ TheFsm.id <= MaxFsmRequests
    /\ \E o \in {OptionFsm_open(call.to, TheFsm)} :
           FsmStep("fsm_open", <<>>, o.fsm, IF o.panic = "none" THEN <<o.pkt>> ELSE <<>>, o.panic)

\* OptionFsm::close
FsmClose ==
    /\ panicked = "none"
    /\ FsmStep("fsm_close", <<>>, OptionFsm_close(TheFsm), <<>>, "none")

\* OptionFsm::handle
FsmHandle ==
    /\ panicked = "none"
    /\ TheFsm.id <= MaxFsmRequests
    /\ \E pkt \in FsmPackets(call.to) :
       \E h \in {handle(call.to, TheFsm, pkt)} :
           FsmStep("fsm_handle", pkt, h.fsm, h.tx, h.panic)

NextFsm == FsmOpen \/ FsmClose \/ FsmHandle

SpecFsm == InitFsm /\ [][NextFsm]_vars

(***************************************************************************)
(* Data runs: a session in which the peer negotiates its asyncmap and the  *)
(* caller sends an IPv4 packet, at any moment and any number of times,     *)
(* with a tx buffer of any size up to MaxSendBuf.                          *)
(***************************************************************************)
\* longest tx_buf handed to send
MaxSendBuf == 17

\* the frames of the peer: LCP Configure-Req with Asyncmap 0, with Asyncmap
\* 0x000A0000, without options, and LCP Configure-Ack
AsyncmapFrames ==
    << Ctl(PLcp, 1, 1, 10, <<2, 6, 0, 0, 0, 0>>),
       Ctl(PLcp, 1, 1, 10, <<2, 6, 0, 10, 0, 0>>),
       Ctl(PLcp, 1, 1, 4, <<>>),
       Ctl(PLcp, 2, 2, 4, <<>>) >>

\* the IPv4 packets handed to send
SendPackets == { <<17>>, <<0, 126>>, <<125, 69>> }

\* the caller has one IPv4 packet, script[1], and a tx_buf of fw.cap bytes for it
InitSend ==
    /\ InitPPPoS
    /\ wire = <<>>
    /\ \E pkt \in SendPackets : script = <<pkt>>
    /\ processed = <<>>
    /\ txlog = <<>>
    /\ \E cap \in 0..MaxSendBuf : fw = FrameWriter_new(cap)

\* PPPoS::send(pkt, tx_buf), with a tx_buf of cap bytes: call.ok is FALSE for
\* Err(BufferFullError), call.out are the bytes written to tx_buf
SendBody(pkt, cap) ==
    /\ panicked = "none"
    /\ \E w \in {FrameWriter_finish(FrameWriter_append(FrameWriter_append(
                     FrameWriter_start(
                         FrameWriter_new_with_asyncmap(cap, lcp.proto.asyncmap_remote)),
                     u16_to_be_bytes(ProtocolType_into("IPv4"))), pkt))} :
           call' = [Call("send") EXCEPT !.ok = ~w.err, !.n = IF w.err THEN 0 ELSE w.len,
                                        !.out = w.buf, !.data = pkt, !.end = cap]
    /\ tx' = <<>>
    /\ UNCHANGED <<config, pppVars, fr, rx_buf, panicked, wire>>

OpenSend == OpenBody /\ UNCHANGED histVars

PutRxBufSend == PutRxBufBody /\ UNCHANGED histVars

PeerSendAsyncmap ==
    /\ panicked = "none"
    /\ Requests <= MaxRequests
    /\ wire = <<>>
    /\ fr.state # "Complete"
    /\ \E i \in DOMAIN AsyncmapFrames :
           wire' = EncodeFrame(AsyncmapFrames[i], AsyncmapDefault)
    /\ call' = Call("peer_send")
    /\ tx' = <<>>
    /\ UNCHANGED <<config, pppVars, fr, rx_buf, panicked, histVars>>

ConsumeSend == ConsumeBody(Len(wire)) /\ UNCHANGED histVars

PollSend == PollBody(TxBufLen) /\ UNCHANGED histVars

Send == SendBody(script[1], fw.cap) /\ UNCHANGED histVars

NextSend == OpenSend \/ PutRxBufSend \/ PeerSendAsyncmap \/ ConsumeSend \/ PollSend \/ Send

SpecSend == InitSend /\ [][NextSend]_vars


(***************************************************************************)
(* Network runs: a session in which the peer negotiates IPv4CP: it acks,   *)
(* nacks and rejects the options of our requests and sends its own.        *)
(***************************************************************************)
\* requests we may send in a network run
MaxNetRequests == 4

NetFrames ==
    << Ctl(PLcp, 1, 1, 4, <<>>),                         \* LCP Configure-Req
       Ctl(PLcp, 2, 2, 4, <<>>),                         \* LCP Configure-Ack
       Ctl(PLcp, 5, 1, 4, <<>>),                         \* LCP Terminate-Req
       Ctl(PIpv4cp, 1, 1, 10, <<3, 6, 10, 0, 0, 1>>),    \* IPv4CP Configure-Req
       Ctl(PIpv4cp, 2, 1, 4, <<>>),                      \* IPv4CP Configure-Ack
       Ctl(PIpv4cp, 3, 1, 10, <<3, 6, 10, 0, 0, 2>>),    \* Nack: IP-Address 10.0.0.2
       Ctl(PIpv4cp, 3, 1, 10, <<129, 6, 8, 8, 8, 8>>),   \* Nack: Primary-DNS 8.8.8.8
       Ctl(PIpv4cp, 4, 1, 10, <<129, 6, 0, 0, 0, 0>>),   \* Rej: Primary-DNS
       Ctl(PIpv4cp, 4, 1, 10, <<131, 6, 0, 0, 0, 0>>),   \* Rej: Secondary-DNS
       Ctl(PIpv4cp, 4, 1, 10, <<3, 6, 10, 0, 0, 2>>) >>  \* Rej: IP-Address

OpenNet == OpenBody /\ UNCHANGED histVars

PutRxBufNet == PutRxBufBody /\ UNCHANGED histVars

PeerSendNet ==
    /\ panicked = "none"
    /\ Requests <= MaxNetRequests
    /\ wire = <<>>
    /\ fr.state # "Complete"
    /\ \E i \in DOMAIN NetFrames : wire' = EncodeFrame(NetFrames[i], AsyncmapDefault)
    /\ call' = Call("peer_send")
    /\ tx' = <<>>
    /\ UNCHANGED <<config, pppVars, fr, rx_buf, panicked, histVars>>

ConsumeNet == ConsumeBody(Len(wire)) /\ UNCHANGED histVars

PollNet == PollBody(TxBufLen) /\ UNCHANGED histVars

NextNet == OpenNet \/ PutRxBufNet \/ PeerSendNet \/ ConsumeNet \/ PollNet

SpecNet == Init /\ [][NextNet]_vars


(***************************************************************************)
(* Id runs: one OptionFsm under open, close, handle and, for LCP,          *)
(* send_protocol_reject, for as many requests as the caller likes: the id  *)
(* counter goes round.                                                     *)
(***************************************************************************)
\* the packets handed to handle: Configure-Req without options, Configure-Ack,
\* Configure-Nack of our option, Terminate-Req and Echo-Req, all with id 7
IdPackets(P) ==
    LET pb == ProtoBytes(P)
    IN  { Ctl(pb, 1, 7, 4, <<>>),
          Ctl(pb, 2, 7, 4, <<>>),
          Ctl(pb, 3, 7, 10, IF P = "LCP" THEN <<2, 6, 0, 0, 0, 10>> ELSE <<3, 6, 10, 0, 0, 2>>),
          Ctl(pb, 5, 7, 4, <<>>),
          Ctl(pb, 9, 7, 8, <<1, 2, 3, 4>>) }

\* a packet of a protocol we do not know
UnknownPacket == <<128, 87, 1, 1, 0, 4>>

\* OptionFsm::open
IdOpen ==
    /\ panicked = "none"
    /\ \E o \in {OptionFsm_open(call.to, TheFsm)} :
           FsmStep("fsm_open", <<>>, o.fsm, IF o.panic = "none" THEN <<o.pkt>> ELSE <<>>, o.panic)

\* OptionFsm::close
IdClose ==
    /\ panicked = "none"
    /\ FsmStep("fsm_close", <<>>, OptionFsm_close(TheFsm), <<>>, "none")

\* OptionFsm::handle
IdHandle ==
    /\ panicked = "none"
    /\ \E pkt \in IdPackets(call.to) :
       \E h \in {handle(call.to, TheFsm, pkt)} :
           FsmStep("fsm_handle", pkt, h.fsm, h.tx, h.panic)

\* OptionFsm::send_protocol_reject, which PPP::received calls on LCP
IdProtocolReject ==
    /\ panicked = "none"
    /\ call.to = "LCP"
    /\ \E r \in {send_protocol_reject(call.to, TheFsm, UnknownPacket)} :
           FsmStep("fsm_reject", UnknownPacket, r.fsm, <<r.pkt>>, r.panic)

NextIds == IdOpen \/ IdClose \/ IdHandle \/ IdProtocolReject

SpecIds == InitFsm /\ [][NextIds]_vars

(***************************************************************************)
(* Line runs: a FrameReader with a buffer of RxBufLen bytes is fed what    *)
(* the line delivers before one encoded frame: bytes that are no flag, or  *)
(* a frame that is not valid, or nothing; or it is fed the frame with one  *)
(* byte changed on the line.  script holds the payload of the frame,       *)
(* processed the bytes fed before it, txlog the change <<pos, old, new>>.  *)
(***************************************************************************)
\* the payloads: protocol IPv4 and data that holds the FCS of the frame of
\* 00 21 alone (E3 E6); IPv4 and one byte; the flag and the escape byte;
\* LCP and XON, ^
LinePayloads ==
    { <<0, 33, 227, 230, 17>>, <<0, 33, 1>>, <<126, 125>>, <<192, 33, 17, 94>> }

LineAsyncmaps == { U32(65535, 65535), U32(0, 0) }

\* bytes that are no flag
GarbageBytes == {0, 3, 125, 255}

\* runs of up to MaxGarbage bytes that are no flag
MaxGarbage == 2
Garbage == UNION { [1..n -> GarbageBytes] : n \in 1..MaxGarbage }

\* frames the reader drops: no control byte and no FCS; too short; control
\* byte 4; wrong FCS; wrong FCS and the escape byte before the closing flag
InvalidFrames ==
    { <<126, 255, 126>>,
      <<126, 255, 3, 126>>,
      <<126, 255, 4, 0, 33, 1, 2, 126>>,
      <<126, 255, 3, 0, 33, 0, 0, 126>>,
      <<126, 255, 3, 0, 33, 0, 0, 125, 126>> }

InitLine ==
    /\ InitPPPoS
    /\ script \in { <<p>> : p \in LinePayloads }
    /\ \E a \in LineAsyncmaps : fw = FrameWriter_new_with_asyncmap(CodecBufLen, a)
    /\ wire = <<>>
    /\ processed = <<>>
    /\ txlog = <<>>

lineRest == <<config, pppVars, panicked, tx, script, fw>>

\* consume(data) of the reader
LineFeed(op, data) ==
    \E c \in {FrameReader_consume(fr, rx_buf.buf, RxBufLen, data)} :
        /\ fr' = c.r
        /\ rx_buf' = [some |-> TRUE, buf |-> c.buf]
        /\ call' = [Call(op) EXCEPT !.data = data, !.n = c.n]

\* the line delivers bytes that are no flag, before any flag
LineGarbage ==
    /\ call.op \in {"new", "garbage"}
    /\ Len(processed) < MaxGarbage
    /\ \E g \in Garbage :
           /\ LineFeed("garbage", g)
           /\ processed' = Append(processed, g)
    /\ UNCHANGED <<lineRest, wire, txlog>>

\* the line delivers a frame that is not valid, and receive() is called
LineInvalid ==
    /\ call.op = "new"
    /\ \E f \in InvalidFrames :
           /\ LineFeed("invalid", f)
           /\ processed' = Append(processed, f)
    /\ UNCHANGED <<lineRest, wire, txlog>>

\* the frame of the payload goes on the line
LineSend ==
    /\ call.op \in {"new", "garbage", "invalid", "invalid_receive"}
    /\ wire = <<>>
    /\ wire' = EncodeFrame(script[1], fw.asyncmap)
    /\ call' = Call("line_send")
    /\ UNCHANGED <<lineRest, fr, rx_buf, processed, txlog>>

\* the line changes one byte of the frame, the flags apart
LineChange ==
    /\ call.op = "line_send"
    /\ processed = <<>>
    /\ \E pos \in 2..(Len(wire) - 1) : \E b \in Byte \ {wire[pos]} :
           /\ wire' = [wire EXCEPT ![pos] = b]
           /\ txlog' = <<pos, wire[pos], b>>
    /\ call' = Call("line_change")
    /\ UNCHANGED <<lineRest, fr, rx_buf, processed>>

\* consume(data) with all the line holds
LineConsume ==
    /\ call.op \in {"line_send", "line_change"}
    /\ LineFeed("reader_consume", wire)
    /\ wire' = SubSeq(wire, call'.n + 1, Len(wire))
    /\ UNCHANGED <<lineRest, processed, txlog>>

\* receive()
LineReceive ==
    /\ call.op \in {"reader_consume", "invalid"}
    /\ \E r \in {FrameReader_receive(fr)} :
          /\ fr' = r.r
          /\ call' = [Call(IF call.op = "invalid" THEN "invalid_receive" ELSE "reader_receive")
                        EXCEPT !.ok = r.some, !.start = r.start, !.end = r.end,
                               !.data = IF r.some THEN SubSeq(rx_buf.buf, r.start + 1, r.end)
                                        ELSE <<>>]
    /\ UNCHANGED <<lineRest, rx_buf, wire, processed, txlog>>

NextLine ==
    LineGarbage \/ LineInvalid \/ LineSend \/ LineChange \/ LineConsume \/ LineReceive

SpecLine == InitLine /\ [][NextLine]_vars

(***************************************************************************)
(* Credential runs: the PAP bring-up of scenario C with user names of      *)
(* several lengths.  The PAP Authenticate-Request is staged in the buffer  *)
(* of StagingLen bytes of poll's tx closure.                               *)
(***************************************************************************)
\* longest user name of the runs (Config allows up to 255 bytes)
MaxUsername == 119

\* a user name of n bytes
Username(n) == [i \in 1..n |-> 117]

\* with the password of 2 bytes the request takes 10 bytes more than the name
StagingConfigs ==
    { [username |-> Username(n), password |-> <<112, 119>>] : n \in {1, 2, MaxUsername} }

InitStaging ==
    /\ config \in StagingConfigs
    /\ phase = PPP_new.phase
    /\ opening = PPP_new.opening
    /\ lcp = PPP_new.lcp
    /\ pap = PPP_new.pap
    /\ ipv4cp = PPP_new.ipv4cp
    /\ fr = FrameReader_new
    /\ rx_buf = [some |-> FALSE, buf |-> <<>>]
    /\ panicked = "none"
    /\ call = Call("new")
    /\ tx = <<>>
    /\ script = ScenarioC
    /\ wire = <<>>
    /\ processed = <<>>
    /\ txlog = <<>>
    /\ fw = NoWriter

SpecStaging == InitStaging /\ [][NextScenario]_vars

(***************************************************************************)
(* Runs with a cooperative peer over a lossless link.  script is the queue *)
(* of frames the peer has still to send, txlog the packets sent to the     *)
(* peer that it has not read yet, processed the peer's own LCP request.    *)
(* The caller offers an RX buffer when there is none, feeds the bytes of   *)
(* the wire to consume and calls poll; the output of poll goes to the peer.*)
(***************************************************************************)
\* length of the RX buffer of these runs: it holds an IPv4CP packet with the
\* three options of our request
LiveRxBufLen == 32

\* the peer's IPv4CP Configure-Req: its address is 10.0.0.1
PeerIpv4cpReq == Ctl(PIpv4cp, 1, 1, 10, <<3, 6, 10, 0, 0, 1>>)

\* the peer's LCP Configure-Req: no option, or Auth-Protocol PAP
PeerLcpReqs == { Ctl(PLcp, 1, 1, 4, <<>>), Ctl(PLcp, 1, 1, 8, <<3, 4, 192, 35>>) }

\* the values the peer assigns: address 10.0.0.2, DNS 8.8.8.8 and 8.8.4.4
PeerAssigned == <<3, 6, 10, 0, 0, 2, 129, 6, 8, 8, 8, 8, 131, 6, 8, 8, 4, 4>>

\* what the peer answers to the packet q of ours, its LCP request being lcpreq
PeerReaction(q, lcpreq) ==
    LET proto == SubSeq(q, 1, 2)
        code == q[3]
        id == q[4]
        body == SubSeq(q, 7, Len(q))
    IN  CASE proto = PLcp /\ code = Code_ConfigureReq ->
                <<Ctl(PLcp, Code_ConfigureAck, id, 4 + Len(body), body)>>
          [] proto = PIpv4cp /\ code = Code_ConfigureReq ->
                IF SubSeq(body, 1, 6) = <<3, 6, 0, 0, 0, 0>>
                THEN <<Ctl(PIpv4cp, Code_ConfigureNack, id, 4 + Len(PeerAssigned), PeerAssigned)>>
                ELSE <<Ctl(PIpv4cp, Code_ConfigureAck, id, 4 + Len(body), body)>>
          [] proto = PPap /\ code = Code_ConfigureReq ->
                <<Ctl(PPap, Code_ConfigureAck, id, 5, <<0>>)>>
          [] proto = PLcp /\ code = Code_TerminateAck -> <<lcpreq>>
          [] proto = PIpv4cp /\ code = Code_TerminateAck -> <<PeerIpv4cpReq>>
          [] OTHER -> <<>>

InitLive ==
    /\ InitPPPoS
    /\ \E l \in PeerLcpReqs :
           /\ processed = <<l>>
           /\ script \in { <<l, PeerIpv4cpReq>>, <<PeerIpv4cpReq, l>> }
    /\ wire = <<>>
    /\ txlog = <<>>
    /\ fw = NoWriter

\* the caller calls open() while the session is Dead
LiveOpen == phase = "Dead" /\ OpenBody /\ UNCHANGED histVars

\* the caller offers a buffer when PPPoS has none
LivePutRxBuf == ~rx_buf.some /\ PutRxBufBody /\ UNCHANGED histVars

\* the peer puts the next frame of its queue on the wire
LivePeerSend ==
    /\ panicked = "none"
    /\ script # <<>>
    /\ wire = <<>>
    /\ wire' = EncodeFrame(Head(script), AsyncmapDefault)
    /\ script' = Tail(script)
    /\ call' = Call("peer_send")
    /\ tx' = <<>>
    /\ UNCHANGED <<config, pppVars, fr, rx_buf, panicked, processed, txlog, fw>>

\* PPPoS::consume with the bytes of the wire, into a buffer of LiveRxBufLen
LiveConsume ==
    /\ panicked = "none"
    /\ rx_buf.some
    /\ wire # <<>>
    /\ \E c \in {FrameReader_consume(fr, rx_buf.buf, LiveRxBufLen, wire)} :
           /\ fr' = c.r
           /\ rx_buf' = [rx_buf EXCEPT !.buf = c.buf]
           /\ wire' = SubSeq(wire, c.n + 1, Len(wire))
           /\ call' = [Call("consume") EXCEPT !.data = wire, !.n = c.n]
    /\ tx' = <<>>
    /\ UNCHANGED <<config, pppVars, panicked, histVars>>

\* PPPoS::poll; what it returns to transmit goes to the peer
LivePoll ==
    /\ rx_buf.some
    /\ PollBody(TxBufLen)
    /\ txlog' = txlog \o Emitted(tx')
    /\ UNCHANGED <<script, processed, fw>>

\* the peer reads the next packet sent to it and queues its answer
LivePeerReceive ==
    /\ panicked = "none"
    /\ txlog # <<>>
    /\ script' = script \o PeerReaction(Head(txlog), processed[1])
    /\ txlog' = Tail(txlog)
    /\ call' = Call("peer_receive")
    /\ tx' = <<>>
    /\ UNCHANGED <<config, pppVars, fr, rx_buf, panicked, wire, processed, fw>>

NextLive ==
    LiveOpen \/ LivePutRxBuf \/ LivePeerSend \/ LiveConsume \/ LivePoll \/ LivePeerReceive

\* the peer has a frame to send and the wire is free
PeerSendReady == panicked = "none" /\ script # <<>> /\ wire = <<>>

\* there are bytes on the wire that consume will take
ConsumeReady == panicked = "none" /\ rx_buf.some /\ wire # <<>> /\ fr.state # "Complete"

\* poll has a frame to take or LCP to open
PollReady == panicked = "none" /\ rx_buf.some /\ (fr.state = "Complete" \/ opening)

\* the caller keeps calling and the peer keeps sending and reading: weak
\* fairness of every action, for LivePeerSend, LiveConsume and LivePoll in
\* the states where the action has something to do
SpecLive ==
    /\ InitLive
    /\ [][NextLive]_vars
    /\ WF_vars(LiveOpen) /\ WF_vars(LivePutRxBuf) /\ WF_vars(LivePeerReceive)
    /\ ([]<>~PeerSendReady \/ []<><<LivePeerSend>>_vars)
    /\ ([]<>~ConsumeReady \/ []<><<LiveConsume>>_vars)
    /\ ([]<>~PollReady \/ []<><<LivePoll>>_vars)

(***************************************************************************)
(* Runs of the PAP machine alone: open, close and handle in any order.     *)
(***************************************************************************)
\* requests sent by one run
MaxPapRequests == 3

\* ids of the peer's packets
PapIds == {2, 9}

\* user names and passwords, the empty ones included
PapConfigs ==
    { [username |-> u, password |-> p] :
          u \in {<<>>, <<117>>, <<117, 115>>}, p \in {<<>>, <<112, 119>>} }

\* the packets handed to PAP::handle: every code from 0 to 12 with a message
\* of no byte, and one packet shorter than its header
PapPackets ==
    { Ctl(PPap, code, id, 5, <<0>>) : code \in 0..12, id \in PapIds }
    \cup { PPap \o <<2, 1, 0>> }

InitPap ==
    /\ config \in PapConfigs
    /\ phase = PPP_new.phase
    /\ opening = PPP_new.opening
    /\ lcp = OptionFsm_new(LCP_new)
    /\ pap = PAP_new
    /\ ipv4cp = OptionFsm_new(IPv4CP_new)
    /\ fr = FrameReader_new
    /\ rx_buf = [some |-> FALSE, buf |-> <<>>]
    /\ panicked = "none"
    /\ tx = <<>>
    /\ call = [Call("new") EXCEPT !.to = "PAP"]
    /\ wire = <<>>
    /\ script = <<>>
    /\ processed = <<>>
    /\ txlog = <<>>
    /\ fw = NoWriter

\* the machine becomes p, having handed the packets out to tx
PapStep(op, pkt, p, out, panic) ==
    /\ pap' = p
    /\ tx' = out
    /\ panicked' = panic
    /\ call' = [Call(op) EXCEPT !.to = "PAP", !.data = pkt]
    /\ UNCHANGED <<config, phase, opening, lcp, ipv4cp, fr, rx_buf, wire, histVars>>

\* PAP::open
PapOpen ==
    /\ panicked = "none"
    /\ pap.id <= MaxPapRequests
    /\ \E o \in {PAP_open(pap, config)} :
           PapStep("pap_open", <<>>, o.fsm, IF o.panic = "none" THEN <<o.pkt>> ELSE <<>>, o.panic)

\* PAP::close
PapClose ==
    /\ panicked = "none"
    /\ PapStep("pap_close", <<>>, PAP_close(pap), <<>>, "none")

\* PAP::handle
PapHandle ==
    /\ panicked = "none"
    /\ pap.id <= MaxPapRequests
    /\ \E pkt \in PapPackets :
       \E h \in {PAP_handle(pap, config, pkt)} :
           PapStep("pap_handle", pkt, h.fsm, h.tx, h.panic)

NextPap == PapOpen \/ PapClose \/ PapHandle

SpecPap == InitPap /\ [][NextPap]_vars

(***************************************************************************)
(* Own-option runs: one OptionFsm is opened, closed and opened again while *)
(* the peer answers its requests with Configure-Nack and Configure-Rej of  *)
(* the options the protocol asks for.  processed holds the codes of the    *)
(* own options the FSM was refused so far, txlog the value the peer last   *)
(* proposed for each of them in 4 bytes.                                   *)
(***************************************************************************)
\* requests one instance may send
MaxOwnRequests == 5

\* codes of the options P puts in its requests, in the order of own_options
OwnCodes(P) == IF P = "LCP" THEN <<2>> ELSE <<3, 129, 131>>

\* values the peer proposes: 4 bytes, and 2 bytes
OwnProposed == { <<10, 0, 0, 2>>, <<8, 8>> }

\* the peer's packets with id i: an empty Configure-Req, Configure-Ack,
\* Terminate-Req, a Configure-Nack of one own option with each value, a
\* Configure-Rej of one own option, and a Configure-Rej of all of them
OwnPackets(P, i) ==
    LET pb == ProtoBytes(P)
        cs == OwnCodes(P)
        opt(c, v) == <<c, Len(v) + 2>> \o v
        all == IF P = "LCP" THEN opt(2, <<0, 0, 0, 0>>)
               ELSE opt(3, <<0, 0, 0, 0>>) \o opt(129, <<0, 0, 0, 0>>) \o opt(131, <<0, 0, 0, 0>>)
    IN  { Ctl(pb, 1, i, 4, <<>>), Ctl(pb, 2, i, 4, <<>>), Ctl(pb, 5, i, 4, <<>>),
          Ctl(pb, 4, i, 4 + Len(all), all) }
        \cup { Ctl(pb, 3, i, 6 + Len(v), opt(cs[k], v)) : k \in DOMAIN cs, v \in OwnProposed }
        \cup { Ctl(pb, 4, i, 10, opt(cs[k], <<0, 0, 0, 0>>)) : k \in DOMAIN cs }

\* the own options a Configure-Nack or Configure-Rej packet refuses: all those
\* of a Configure-Rej, and those of a Configure-Nack whose data is not 4 bytes
Refused(P, pkt) ==
    LET os == parse_options(SubSeq(pkt, 7, Len(pkt))).opts
    IN  { os[k].code : k \in { j \in DOMAIN os : pkt[3] = Code_ConfigureRej \/ Len(os[j].data) # 4 } }
        \cap { OwnCodes(P)[k] : k \in DOMAIN OwnCodes(P) }

\* the values a Configure-Nack packet proposes in 4 bytes, laid over old
Proposed(pkt, old) ==
    LET os == parse_options(SubSeq(pkt, 7, Len(pkt))).opts
    IN  [ c \in DOMAIN old |->
            IF pkt[3] = Code_ConfigureNack
               /\ \E j \in DOMAIN os : os[j].code = c /\ Len(os[j].data) = 4
            THEN (CHOOSE o \in { os[j] : j \in DOMAIN os } : o.code = c /\ Len(o.data) = 4).data
            ELSE old[c] ]

InitOwn ==
    /\ config \in Configs
    /\ phase = PPP_new.phase
    /\ opening = PPP_new.opening
    /\ lcp = OptionFsm_new(LCP_new)
    /\ pap = PPP_new.pap
    /\ ipv4cp = OptionFsm_new(IPv4CP_new)
    /\ fr = FrameReader_new
    /\ rx_buf = [some |-> FALSE, buf |-> <<>>]
    /\ panicked = "none"
    /\ tx = <<>>
    /\ \E P \in {"LCP", "IPv4CP"} :
         /\ call = [Call("new") EXCEPT !.to = P]
         /\ txlog = [ c \in { OwnCodes(P)[k] : k \in DOMAIN OwnCodes(P) } |-> <<0, 0, 0, 0>> ]
    /\ wire = <<>>
    /\ script = <<>>
    /\ processed = {}
    /\ fw = NoWriter

\* one call on the OptionFsm under test
OwnStep(op, pkt, f, out, panic) ==
    /\ lcp' = IF call.to = "LCP" THEN f ELSE lcp
    /\ ipv4cp' = IF call.to = "LCP" THEN ipv4cp ELSE f
    /\ tx' = out
    /\ panicked' = panic
    /\ call' = [Call(op) EXCEPT !.to = call.to, !.data = pkt]
    /\ UNCHANGED <<config, phase, opening, pap, fr, rx_buf, wire, script, fw>>

\* OptionFsm::open
OwnOpen ==
    /\ panicked = "none"
    /\ TheFsm.id <= MaxOwnRequests
    /\ \E o \in {OptionFsm_open(call.to, TheFsm)} :
           OwnStep("fsm_open", <<>>, o.fsm, IF o.panic = "none" THEN <<o.pkt>> ELSE <<>>, o.panic)
    /\ UNCHANGED <<processed, txlog>>

\* OptionFsm::close
OwnClose ==
    /\ panicked = "none"
    /\ OwnStep("fsm_close", <<>>, OptionFsm_close(TheFsm), <<>>, "none")
    /\ UNCHANGED <<processed, txlog>>

\* OptionFsm::handle; a Configure-Nack or Configure-Rej counts when the FSM is
\* not Closed, where the packet is answered with Terminate-Ack and not read
OwnHandle ==
    /\ panicked = "none"
    /\ TheFsm.id <= MaxOwnRequests
    /\ \E i \in {TheFsm.id, 200} :
       \E pkt \in OwnPackets(call.to, i) :
       \E h \in {handle(call.to, TheFsm, pkt)} :
           /\ OwnStep("fsm_handle", pkt, h.fsm, h.tx, h.panic)
           /\ IF TheFsm.state # "Closed" /\ pkt[3] \in {Code_ConfigureNack, Code_ConfigureRej}
              THEN /\ processed' = processed \cup Refused(call.to, pkt)
                   /\ txlog' = Proposed(pkt, txlog)
              ELSE UNCHANGED <<processed, txlog>>

NextOwn == OwnOpen \/ OwnClose \/ OwnHandle

SpecOwn == InitOwn /\ [][NextOwn]_vars

(***************************************************************************)
(* CRC runs: crc16 is called with a slice of one byte, first on one of the *)
(* seeds below and then on what it returned.  call.start is the seed       *)
(* passed, call.data the slice, call.n the value returned, call.end the    *)
(* number of calls so far.                                                 *)
(***************************************************************************)
\* calls in a row
MaxCrcLen == 2

\* the first seeds: the writer's, the reader's, zero and the residue
CrcSeeds == { 65535, 255, 0, 61624 }

InitCrc ==
    /\ config \in Configs
    /\ phase = PPP_new.phase
    /\ opening = PPP_new.opening
    /\ lcp = OptionFsm_new(LCP_new)
    /\ pap = PPP_new.pap
    /\ ipv4cp = OptionFsm_new(IPv4CP_new)
    /\ fr = FrameReader_new
    /\ rx_buf = [some |-> FALSE, buf |-> <<>>]
    /\ panicked = "none"
    /\ tx = <<>>
    /\ \E seed \in CrcSeeds : call = [Call("new") EXCEPT !.n = seed]
    /\ wire = <<>>
    /\ script = <<>>
    /\ processed = <<>>
    /\ txlog = <<>>
    /\ fw = NoWriter

\* crc16(seed, &[b])
CrcByte ==
    /\ call.end < MaxCrcLen
    /\ \E b \in 0..255 :
         call' = [Call("crc16") EXCEPT !.start = call.n, !.data = <<b>>,
                                       !.n = crc16(call.n, <<b>>), !.end = call.end + 1]
    /\ UNCHANGED <<config, pppVars, fr, rx_buf, panicked, wire, tx, histVars>>

NextCrc == CrcByte

SpecCrc == InitCrc /\ [][NextCrc]_vars

(***************************************************************************)
(* Properties.                                                             *)
(***************************************************************************)
\* C1: open() succeeds only in phase Dead.  Called in phase Dead it returns Ok
\* and the phase becomes Establish; called in any other phase it returns
\* InvalidState and leaves the phase and the states of LCP, PAP and IPv4CP as
\* they were.
C1_OpenOnlyInDead ==
    [][call'.op = "open" =>
          IF phase = "Dead"
          THEN call'.ok /\ phase' = "Establish"
          ELSE /\ ~call'.ok
               /\ phase' = phase
               /\ lcp'.state = lcp.state
               /\ pap'.state = pap.state
               /\ ipv4cp'.state = ipv4cp.state]_vars

\* open() was refused in a phase other than Dead, the link being up
C1_Refused ==
    /\ call.op = "open"
    /\ ~call.ok
    /\ phase = "Open"
    /\ lcp.state = "Opened"

\* C2: while the reader holds a completed frame (state Complete), consume(data)
\* with non-empty data returns 0 and changes neither the buffered frame, nor
\* len, nor the reader state; and the consume call that completes a frame
\* stops at the closing flag: it returns the index behind that flag, and the
\* reader and buffer are those reached by the bytes up to the flag alone.
C2_ReaderStall ==
    [][call'.op = "consume" /\ rx_buf.some =>
          /\ fr.state = "Complete" =>
                /\ Len(call'.data) > 0
                /\ call'.n = 0
                /\ fr' = fr
                /\ rx_buf' = rx_buf
                /\ wire' = wire
          /\ fr.state # "Complete" /\ fr'.state = "Complete" =>
                /\ call'.n \in 1..Len(call'.data)
                /\ call'.data[call'.n] = 126
                /\ wire' = SubSeq(wire, call'.n + 1, Len(wire))
                /\ LET upto(m) == FrameReader_consume(fr, rx_buf.buf, RxBufLen,
                                                      SubSeq(call'.data, 1, m))
                   IN  /\ upto(call'.n - 1).r.state # "Complete"
                       /\ upto(call'.n).r = fr'
                       /\ upto(call'.n).buf = rx_buf'.buf]_vars

\* consume was offered bytes behind a completed frame and took none
C2_Stalled ==
    /\ call.op = "consume"
    /\ fr.state = "Complete"
    /\ Len(call.data) > 0
    /\ call.n = 0
    /\ wire # <<>>

\* C3 (as stated, its first part): the poll that takes a malformed LCP, IPv4CP
\* or PAP packet (shorter than 6 bytes, length field with length + 2 beyond the
\* frame or below 6, option list truncated or with an option length below 2)
\* returns normally: it does not panic.
C3_MalformedNoPanic ==
    [][/\ call'.op = "poll"
       /\ rx_buf.some
       /\ fr.state = "Complete"
       /\ LET pkt == SubSeq(rx_buf.buf, 2, fr.len - 2)
              proto == ProtocolType_from(u16_from_be_bytes(SubSeq(pkt, 1, 2)))
              len == u16_from_be_bytes(SubSeq(pkt, 5, 6))
          IN  /\ Len(pkt) >= 2
              /\ proto \in {"LCP", "IPv4CP", "PAP"}
              /\ \/ Len(pkt) < 6
                 \/ len + 2 > Len(pkt)
                 \/ len + 2 < 6
                 \/ /\ proto \in {"LCP", "IPv4CP"}
                    /\ Code_from(pkt[3]) \in {Code_ConfigureReq, Code_ConfigureNack,
                                              Code_ConfigureRej}
                    /\ parse_options(SubSeq(pkt, 7, len + 2)).err
       => panicked' = "none"]_vars

C5_IPv4Received ==
    [][/\ call'.op = "poll"
       /\ rx_buf.some
       /\ fr.state = "Complete"
       /\ fr.len >= 5
       /\ u16_from_be_bytes(SubSeq(rx_buf.buf, 2, 3)) = 33
       => /\ panicked' = "none"
          /\ call'.kind = "Received"
          /\ call'.start = 3
          /\ call'.end = fr.len - 2
          /\ call'.buf = rx_buf.buf
          /\ ~rx_buf'.some
          /\ call'.n = 0
          /\ call'.out = <<>>
          /\ tx' = <<>>
          /\ call'.to = "none"
          /\ ~call'.stepped
          /\ phase' = phase
          /\ opening' = opening
          /\ lcp' = lcp
          /\ pap' = pap
          /\ ipv4cp' = ipv4cp]_vars

\* an IPv4 frame was handed out by the first poll after open(), whose phase step
\* would have opened LCP
C5_ReceivedBeforeLcpOpen ==
    /\ call.op = "poll"
    /\ call.kind = "Received"
    /\ SubSeq(call.buf, call.start + 1, call.end) = <<69, 0>>
    /\ phase = "Establish"
    /\ opening
    /\ lcp.state = "Closed"
    /\ ~rx_buf.some

\* C6: frames are surfaced one per poll and in arrival order.  For a stream of
\* valid frames F1..Fn split into consume calls in any way, the frames taken
\* so far are F1..Fi for some i; a poll takes a frame exactly when the reader
\* holds a completed one, never more than one, and it is the next of the
\* stream; and once the stream has been consumed and drained, all n were taken.
C6_OnePerPollInOrder ==
    /\ [](/\ Len(processed) <= Len(script)
          /\ processed = SubSeq(script, 1, Len(processed))
          /\ (panicked = "none" /\ wire = <<>> /\ fr.state # "Complete"
                 => processed = script))
    /\ [][call'.op = "poll" /\ panicked' = "none" =>
             processed' = IF fr.state = "Complete"
                          THEN Append(processed, script[Len(processed) + 1])
                          ELSE processed]_vars

\* a stream of three different frames was taken whole, the last one by a poll
C6_ThreeTaken ==
    /\ call.op = "poll"
    /\ Len(script) = 3
    /\ script[1] # script[2]
    /\ script[2] # script[3]
    /\ script[1] # script[3]
    /\ processed = script
    /\ wire = <<>>

\* C7 (as stated): whenever LCP is Opened and the peer's Configure-Req that we
\* acked carried Auth-Protocol = PAP, the orchestrator is in phase Auth, or
\* has left it with PAP Opened.
C7_AuthWheneverPap ==
    panicked = "none" /\ lcp.state = "Opened" /\ lcp.proto.auth = "PAP"
        => phase = "Auth" \/ (phase \in {"Network", "Open"} /\ pap.state = "Opened")

\* C7 (amended): when LCP becomes Opened in phase Establish and the peer's
\* Configure-Req that we acked carried Auth-Protocol = PAP, the same poll opens
\* PAP and enters phase Auth, and phase Establish is left for Network only with
\* no authentication asked; phase Auth is left for Network only by the poll that
\* finds PAP Opened, which is the poll that calls IPv4CP.open(); and IPv4CP is
\* Closed, and PAP not yet Opened, throughout phase Auth.  (An LCP renegotiated
\* to Auth-Protocol = PAP in phase Network or Open does not bring Auth back.)
C7_AuthGating ==
    /\ [](panicked = "none" /\ phase = "Auth"
             => ipv4cp.state = "Closed" /\ pap.state = "ReqSent")
    /\ [][panicked' = "none" =>
             /\ phase = "Establish" /\ lcp'.state = "Opened" /\ lcp'.proto.auth = "PAP"
                   => phase' = "Auth"
             /\ phase = "Establish" /\ phase' \in {"Network", "Open"}
                   => phase' = "Network" /\ lcp'.proto.auth = "None"
             /\ phase = "Auth" /\ phase' \notin {"Auth", "Dead"}
                   => /\ phase' = "Network"
                      /\ pap'.state = "Opened"
                      /\ ipv4cp'.state = "ReqSent"
                      /\ ipv4cp'.id = (ipv4cp.id + 1) % 256
             /\ phase' = "Auth" => phase \in {"Establish", "Auth"}]_vars

\* the poll that took the PAP Authenticate-Ack left Auth for Network and sent
\* the IPv4CP Configure-Req
C7_Authenticated ==
    /\ call.op = "poll"
    /\ call.to = "PAP"
    /\ phase = "Network"
    /\ pap.state = "Opened"
    /\ lcp.proto.auth = "PAP"
    /\ ipv4cp.state = "ReqSent"
    /\ Len(tx) = 1
    /\ tx[1].proto = "IPv4CP"

\* C8: the phase observed through status() never decreases in the order
\* Dead < Establish < Auth < Network < Open, except for a reset to Dead, and a
\* reset to Dead is taken only by a step in which LCP leaves Opened for Closed.
C8_PhaseMonotone ==
    [][/\ PPP_status(ThePPP).phase = phase
       /\ PPP_status(ThePPP)'.phase = phase'
       /\ phase' # phase =>
             \/ PhaseOrd(phase') > PhaseOrd(phase)
             \/ /\ phase' = "Dead"
                /\ call'.op = "poll"
                /\ lcp.state = "Opened"
                /\ lcp'.state = "Closed"]_vars

\* a poll took the peer's LCP Terminate-Request in phase Open: LCP is Closed
\* and the phase is back to Dead
C8_ResetToDead ==
    /\ call.op = "poll"
    /\ call.to = "LCP"
    /\ Len(call.data) >= 3
    /\ call.data[3] = Code_TerminateReq
    /\ phase = "Dead"
    /\ lcp.state = "Closed"
    /\ ipv4cp.state = "Opened"

\* our first LCP Configure-Req: id 2, Asyncmap = 0
OurLcpReq == Ctl(PLcp, 1, 2, 10, <<2, 6, 0, 0, 0, 0>>)

\* our IPv4CP Configure-Req number id - 1, asking for address a
OurIpv4cpReq(id, a) ==
    Ctl(PIpv4cp, 1, id, 22, <<3, 6>> \o a \o <<129, 6, 0, 0, 0, 0, 131, 6, 0, 0, 0, 0>>)

\* our first poll sent the LCP Configure-Req and the peer's Configure-Req, taken
\* after it, was answered with a Configure-Ack of its id and options
AckedPeer(req) ==
    /\ panicked = "none"
    /\ Len(processed) >= 1
    /\ processed[1] = req
    /\ Len(txlog) >= 2
    /\ txlog[1] = OurLcpReq
    /\ txlog[2] = [req EXCEPT ![3] = Code_ConfigureAck]

\* C9 (as stated): in scenario B, once the peer has acked our IPv4CP
\* Configure-Req carrying 10.0.0.2, the phase is Open and status().ipv4.address
\* is 10.0.0.2.
C9_OpenOnAck ==
    AckedPeer(ScenarioB[1]) /\ processed = ScenarioB
        => /\ phase = "Open"
           /\ PPP_status(ThePPP).ipv4.some
           /\ PPP_status(ThePPP).ipv4.status.address = Some(<<10, 0, 0, 2>>)

\* C9 (amended): in scenario B the peer's LCP Configure-Req without options,
\* taken once LCP was opened, is answered with a Configure-Ack; the poll that
\* takes the Configure-Ack of our LCP request (Asyncmap = 0) brings the phase to
\* Network and sends an IPv4CP Configure-Req; the poll that takes the IPv4CP
\* Configure-Nack adopts 10.0.0.2 and sends a new Configure-Req carrying it;
\* the Configure-Ack of that request leaves IPv4CP in AckReceived, the phase
\* Network and status().ipv4 empty; the phase becomes Open, with
\* status().ipv4.address = 10.0.0.2, when we have also acked the peer's own
\* IPv4CP Configure-Req.
C9_BringUp ==
    /\ [][call'.op = "poll" /\ call'.data = ScenarioB[1] /\ lcp.state # "Closed"
             /\ processed = <<>> /\ panicked' = "none"
          => AckedPeer(ScenarioB[1])']_vars
    /\ [](AckedPeer(ScenarioB[1]) /\ processed = SubSeq(ScenarioB, 1, 2)
            => /\ phase = "Network"
               /\ lcp.state = "Opened"
               /\ txlog = <<OurLcpReq, Ctl(PLcp, 2, 1, 4, <<>>),
                            OurIpv4cpReq(2, <<0, 0, 0, 0>>)>>)
    /\ [](AckedPeer(ScenarioB[1]) /\ processed = SubSeq(ScenarioB, 1, 3)
            => /\ phase = "Network"
               /\ ipv4cp.state = "ReqSent"
               /\ ipv4cp.proto.address.address = <<10, 0, 0, 2>>
               /\ Len(txlog) = 4
               /\ txlog[4] = OurIpv4cpReq(3, <<10, 0, 0, 2>>))
    /\ [](AckedPeer(ScenarioB[1]) /\ processed = ScenarioB
            => /\ phase = "Network"
               /\ ipv4cp.state = "AckReceived"
               /\ ~PPP_status(ThePPP).ipv4.some
               /\ Len(txlog) = 4)
    /\ [](AckedPeer(ScenarioB[1]) /\ processed = ScenarioBReq
            => /\ phase = "Open"
               /\ ipv4cp.state = "Opened"
               /\ PPP_status(ThePPP).ipv4.some
               /\ PPP_status(ThePPP).ipv4.status.address = Some(<<10, 0, 0, 2>>)
               /\ txlog[5] = Ctl(PIpv4cp, 2, 1, 10, <<3, 6, 10, 0, 0, 1>>))

\* scenario B went through and the peer's own IPv4CP Configure-Req was acked:
\* the phase is Open with address 10.0.0.2
C9_Up ==
    /\ AckedPeer(ScenarioB[1])
    /\ processed = ScenarioBReq
    /\ call.op = "poll"
    /\ phase = "Open"
    /\ PPP_status(ThePPP).ipv4.status.address = Some(<<10, 0, 0, 2>>)

\* the PAP Authenticate-Request of id carrying the configured username and password
OurPapReq(id) ==
    Ctl(PPap, 1, id, 6 + Len(config.username) + Len(config.password),
        <<Len(config.username)>> \o config.username
            \o <<Len(config.password)>> \o config.password)

TookUnknown ==
    /\ call.op = "poll"
    /\ call.stepped
    /\ Len(call.data) >= 2
    /\ ProtocolType_from(u16_from_be_bytes(SubSeq(call.data, 1, 2))) = "Unknown"

C12_EchoReplied ==
    [][call'.op = "fsm_handle" /\ call'.data[3] = Code_EchoReq /\ TheFsm.state = "Opened"
          => /\ panicked' = "none"
             /\ Len(tx') = 1
             /\ tx'[1].proto = call.to
             /\ Emitted(tx')[1] =
                    [SubSeq(call'.data, 1, u16_from_be_bytes(SubSeq(call'.data, 5, 6)) + 2)
                        EXCEPT ![3] = Code_EchoReply]
             /\ TheFsm' = TheFsm]_vars

\* C13: a poll that immediately follows a poll which returned None or Transmit
\* returns None, writes nothing to tx_buf, emits no packet and leaves the
\* phase and the LCP, PAP and IPv4CP machines as they were.
C13_Quiescent ==
    [][/\ call.op = "poll"
       /\ call.kind \in {"None", "Transmit"}
       /\ call'.op = "poll"
       => /\ panicked' = "none"
          /\ call'.kind = "None"
          /\ call'.n = 0
          /\ call'.data = <<>>
          /\ tx' = <<>>
          /\ UNCHANGED pppVars]_vars

\* with our LCP and IPv4CP requests both sent and the second still unanswered,
\* a poll that took no frame returned None
C13_NothingResent ==
    /\ call.op = "poll"
    /\ call.stepped
    /\ call.data = <<>>
    /\ call.kind = "None"
    /\ phase = "Network"
    /\ ipv4cp.state = "ReqSent"

\* C14: the packets of one poll are written to tx_buf in the order they are
\* emitted, those answering the inbound frame (the response, then a
\* Configure-Req the handler adds) before those of the phase step, each as a
\* complete frame right behind the one before; poll returns Transmit(n), n
\* being the sum of the lengths of the frames, or None when there is none.
C14_OutboundOrder ==
    [][call'.op = "poll" /\ call'.stepped /\ panicked' = "none"
          => /\ call'.out = StreamBytes(Emitted(tx'))
             /\ call'.n = Len(call'.out)
             /\ call'.kind = IF tx' = <<>> THEN "None" ELSE "Transmit"
             /\ \A i \in 1..Len(tx') :
                    LET f == EncodeFrame(Emitted(tx')[i], AsyncmapDefault)
                    IN  f[1] = 126 /\ f[Len(f)] = 126
             /\ \E r \in {IF call'.data = <<>>
                          THEN Stepped(ThePPP, <<>>, "none", <<>>, "none")
                          ELSE PPP_received(ThePPP, config, call'.data)} :
                    /\ tx' = r.tx \o PPP_poll(r.ppp, config).tx
                    /\ call'.data # <<>> /\ call'.data[3] = Code_ConfigureReq /\ r.tx # <<>>
                       /\ call'.to \in {"LCP", "IPv4CP"}
                          => /\ tx'[1].proto = call'.to
                             /\ tx'[1].id = call'.data[4]
                             /\ Len(r.tx) = 2 => /\ tx'[2].proto = call'.to
                                                 /\ tx'[2].code = Code_ConfigureReq]_vars

\* a poll took the peer's LCP Configure-Req with LCP in AckReceived: the
\* Configure-Ack comes first in tx_buf and the IPv4CP Configure-Req of the
\* phase step, sent as LCP is now Opened, follows it
C14_AnswerThenPhaseStep ==
    /\ call.op = "poll"
    /\ call.kind = "Transmit"
    /\ call.to = "LCP"
    /\ Len(tx) = 2
    /\ tx[1].proto = "LCP"
    /\ tx[1].code = Code_ConfigureAck
    /\ tx[2].proto = "IPv4CP"
    /\ tx[2].code = Code_ConfigureReq
    /\ call.n = Len(EncodeFrame(Emitted(tx)[1], AsyncmapDefault))
                  + Len(EncodeFrame(Emitted(tx)[2], AsyncmapDefault))

\* b as it stands in a frame written with asyncmap: 0x7D, b XOR 0x20 for a
\* byte below 0x20 whose bit is set in asyncmap and for 0x7D and 0x7E
Stuffed(b, asyncmap) ==
    IF (b <= 31 /\ u32_bit(asyncmap, b)) \/ b = 125 \/ b = 126
    THEN <<125, Xor8(b, 32)>>
    ELSE <<b>>

RECURSIVE StuffedAll(_, _)
StuffedAll(data, asyncmap) ==
    IF data = <<>> THEN <<>>
    ELSE Stuffed(Head(data), asyncmap) \o StuffedAll(Tail(data), asyncmap)

\* the frame of an IPv4 packet: flag, address, then control, protocol 0x0021,
\* the packet and the FCS (low byte first) stuffed, flag
DataFrame(pkt, asyncmap) ==
    LET fcs == Xor16(crc16(65535, <<255, 3, 0, 33>> \o pkt), 65535)
    IN  <<126, 255>>
        \o StuffedAll(<<3, 0, 33>> \o pkt \o <<fcs % 256, fcs \div 256>>, asyncmap)
        \o <<126>>

\* C15: send returns BufferFull exactly when the frame is longer than tx_buf;
\* it writes nothing at or beyond tx_buf.len(), and what it wrote is the
\* beginning of the frame; on success it returns the length of the frame,
\* which is then in tx_buf; the phase, the LCP, PAP and IPv4CP machines, the
\* reader and the RX buffer are unchanged in both cases.
C15_SendBufferFull ==
    [][call'.op = "send"
          => LET frame == DataFrame(call'.data, lcp.proto.asyncmap_remote)
                 cap == call'.end
             IN  /\ call'.ok <=> Len(frame) <= cap
                 /\ Len(call'.out) <= cap
                 /\ call'.out = SubSeq(frame, 1, Len(call'.out))
                 /\ call'.ok => call'.n = Len(frame) /\ call'.out = frame
                 /\ panicked' = "none"
                 /\ UNCHANGED <<pppVars, fr, rx_buf>>]_vars

\* send returned BufferFull with a tx_buf one byte short of the frame, the
\* peer's asyncmap being 0x000A0000
C15_OneByteShort ==
    /\ call.op = "send"
    /\ ~call.ok
    /\ lcp.proto.asyncmap_remote = U32(10, 0)
    /\ call.end + 1 = Len(DataFrame(call.data, lcp.proto.asyncmap_remote))
    /\ Len(call.out) = call.end

\* how many times b occurs in s
Count(s, b) == Cardinality({i \in 1..Len(s) : s[i] = b})

\* the bytes of an IPv4 frame from the control field through the FCS
DataContent(pkt) ==
    LET fcs == Xor16(crc16(65535, <<255, 3, 0, 33>> \o pkt), 65535)
    IN  <<3, 0, 33>> \o pkt \o <<fcs % 256, fcs \div 256>>

\* C16: in the frame send produces, each byte below 0x20 from the address
\* through the FCS stands as 0x7D, b XOR 0x20 if bit b of LCP's asyncmap_remote
\* is set and literally if not, and 0x7D and 0x7E are always escaped: with
\* asyncmap_remote = 0 the only escapes are those of 0x7D and 0x7E, with
\* 0xFFFFFFFF no byte below 0x20 is in the frame.  The frames poll produces
\* are written with asyncmap 0xFFFFFFFF whatever asyncmap_remote is.
C16_AsyncmapApplied ==
    /\ [][call'.op = "send" /\ call'.ok
             => \E content \in {DataContent(call'.data)} :
                \E map \in {lcp.proto.asyncmap_remote} :
                \E out \in {call'.out} :
                    /\ out = <<126, 255>> \o StuffedAll(content, map) \o <<126>>
                    /\ \A b \in 0..31 :
                          Count(out, b) = IF u32_bit(map, b) THEN 0 ELSE Count(content, b)
                    /\ Count(out, 126) = 2
                    /\ Count(out, 125) =
                          Cardinality({i \in 1..Len(content) :
                                          \/ content[i] \in {125, 126}
                                          \/ content[i] <= 31 /\ u32_bit(map, content[i])})
                    /\ map = U32(0, 0)
                          => Count(out, 125) = Count(content, 125) + Count(content, 126)
                    /\ map = U32(65535, 65535)
                          => \A i \in 1..Len(out) : out[i] >= 32]_vars
    /\ [][call'.op = "poll" /\ call'.stepped /\ panicked' = "none"
             => /\ call'.out = StreamBytes(Emitted(tx'))
                /\ \A i \in 1..Len(call'.out) : call'.out[i] >= 32]_vars

\* send wrote the packet 0x11 with asyncmap_remote = 0x000A0000: 0x11 is
\* escaped, the control byte 0x03 and the protocol byte 0x00 are not
C16_PartlyEscaped ==
    /\ call.op = "send"
    /\ call.ok
    /\ lcp.proto.asyncmap_remote = U32(10, 0)
    /\ call.data = <<17>>
    /\ SubSeq(call.out, 1, 7) = <<126, 255, 3, 0, 33, 125, 49>>

\* C17: status().ipv4 is Some exactly when IPv4CP is Opened; in it address,
\* dns_servers[0] and dns_servers[1] are Some(a) exactly when the option is
\* not rejected and its address a is not 0.0.0.0, and peer_address is Some
\* exactly when it is not 0.0.0.0.
C17_Status ==
    \E st \in {PPP_status(ThePPP)} :
    \E c \in {ipv4cp.proto} :
        /\ st.ipv4.some <=> ipv4cp.state = "Opened"
        /\ st.ipv4.some =>
             /\ \A oa \in { <<c.address, st.ipv4.status.address>>,
                            <<c.dns_server_1, st.ipv4.status.dns_servers[1]>>,
                            <<c.dns_server_2, st.ipv4.status.dns_servers[2]>> } :
                    /\ oa[2].some <=> ~oa[1].is_rejected /\ oa[1].address # <<0, 0, 0, 0>>
                    /\ oa[2].some => oa[2].address = oa[1].address
             /\ st.ipv4.status.peer_address.some <=> c.peer_address # <<0, 0, 0, 0>>
             /\ st.ipv4.status.peer_address.some
                   => st.ipv4.status.peer_address.address = c.peer_address

\* IPv4CP is Opened with the address 10.0.0.2 adopted from a Configure-Nack
\* and then rejected by the peer: status().ipv4 is Some, its address None and
\* its peer_address Some(10.0.0.1)
C17_RejectedAddress ==
    /\ ipv4cp.state = "Opened"
    /\ ipv4cp.proto.address = [address |-> <<10, 0, 0, 2>>, is_rejected |-> TRUE]
    /\ PPP_status(ThePPP).ipv4.some
    /\ ~PPP_status(ThePPP).ipv4.status.address.some
    /\ PPP_status(ThePPP).ipv4.status.peer_address = Some(<<10, 0, 0, 1>>)

\* C18: the PPPoS holds no RX buffer after construction; only put_rx_buf
\* makes it hold one and only a poll that returns Received makes it hold none,
\* and each of them does; put_rx_buf panics when a buffer is held, and poll
\* and consume panic when none is held.
C18_RxBufOwnership ==
    /\ ~rx_buf.some
    /\ [][ /\ rx_buf'.some # rx_buf.some
              => \/ call'.op = "put_rx_buf" /\ rx_buf'.some
                 \/ call'.op = "poll" /\ call'.kind = "Received" /\ ~rx_buf'.some
           /\ call'.op = "put_rx_buf"
              => IF rx_buf.some
                 THEN panicked' = "called put_rx_buf when we already have a buffer."
                 ELSE rx_buf'.some /\ panicked' = "none"
           /\ call'.op = "poll" /\ call'.kind = "Received"
              => rx_buf.some /\ ~rx_buf'.some /\ panicked' = "none"
           /\ call'.op = "poll" /\ ~rx_buf.some
              => panicked' = "called poll() without an rx_buf"
           /\ call'.op = "poll" /\ rx_buf.some
              => panicked' # "called poll() without an rx_buf"
           /\ call'.op = "consume"
              => (panicked' = "called consume() without an rx_buf" <=> ~rx_buf.some)
         ]_vars

\* a poll has returned Received and the buffer is with the caller
C18_BufferHandedOut ==
    /\ call.op = "poll"
    /\ call.kind = "Received"
    /\ ~rx_buf.some
    /\ panicked = "none"

\* the option lists of a Configure-Req that P acknowledges whole
AcceptableLists(P) ==
    IF P = "LCP"
    THEN { <<>>, <<2, 6, 0, 10, 0, 0>>, <<3, 4, 192, 35>>,
           <<2, 6, 0, 10, 0, 0, 3, 4, 192, 35>>, <<3, 4, 192, 35, 2, 6, 0, 10, 0, 0>> }
    ELSE { <<>>, <<3, 6, 10, 0, 0, 1>> }

\* pkt is a Configure-Req with acceptable options, with any id
IsAcceptableReq(P, pkt) ==
    \E id \in FsmIds : \E b \in AcceptableLists(P) :
        pkt = Ctl(ProtoBytes(P), 1, id, 4 + Len(b), b)

\* pkt is a Configure-Ack, with any id
IsConfigureAck(P, pkt) ==
    \E id \in FsmIds : pkt = Ctl(ProtoBytes(P), 2, id, 4, <<>>)

\* C19: open() takes the machine from Closed to ReqSent; from there a
\* Configure-Req with acceptable options leads to AckSent and a Configure-Ack
\* to AckReceived, and the other of the two packets leads from either to
\* Opened, whatever the ids of the two packets and of our request.
C19_OpenedRegardlessOfIds ==
    [][ /\ call'.op = "fsm_open" /\ panicked' = "none"
           => TheFsm.state = "Closed" /\ TheFsm'.state = "ReqSent"
        /\ call'.op = "fsm_handle"
           => /\ TheFsm.state = "ReqSent" /\ IsAcceptableReq(call.to, call'.data)
                 => TheFsm'.state = "AckSent" /\ panicked' = "none"
              /\ TheFsm.state = "ReqSent" /\ IsConfigureAck(call.to, call'.data)
                 => TheFsm'.state = "AckReceived" /\ panicked' = "none"
              /\ TheFsm.state = "AckSent" /\ IsConfigureAck(call.to, call'.data)
                 => TheFsm'.state = "Opened" /\ panicked' = "none"
              /\ TheFsm.state = "AckReceived" /\ IsAcceptableReq(call.to, call'.data)
                 => TheFsm'.state = "Opened" /\ panicked' = "none"
      ]_vars

\* the machine is Opened by a Configure-Ack with id 255 when the only request
\* it has sent has id 2
C19_OpenedByForeignAck ==
    /\ TheFsm.state = "Opened"
    /\ TheFsm.id = 2
    /\ call.op = "fsm_handle"
    /\ call.data = Ctl(ProtoBytes(call.to), 2, 255, 4, <<>>)

RECURSIVE WinningOptions(_, _, _, _)
\* the options of opts whose verdict under P is win, in order, with the
\* suggested data when win is Nack
WinningOptions(P, proto, opts, win) ==
    IF opts = <<>> THEN <<>>
    ELSE LET v == peer_option_received(P, proto, Head(opts).code, Head(opts).data)
         IN
         (IF v.verdict = win
          THEN <<OptionVal(Head(opts).code,
                           IF win = "Nack" THEN v.data ELSE Head(opts).data)>>
          ELSE <<>>)
         \o WinningOptions(P, proto, Tail(opts), win)

\* C20: a machine that is not Closed answers every well-formed Configure-Req
\* first with a packet that has the id of the request, the code Rej if any
\* option is rejected, else Nack if any is nacked, else Ack, and exactly the
\* options of that verdict, in the order of the request, with the suggested
\* data for Nack and the received data for Ack and Rej.
C20_VerdictPrecedence ==
    [][ /\ call'.op = "fsm_handle"
        /\ Len(call'.data) >= 6
        /\ call'.data[3] = Code_ConfigureReq
        /\ u16_from_be_bytes(SubSeq(call'.data, 5, 6)) + 2 = Len(call'.data)
        /\ ~parse_options(SubSeq(call'.data, 7, Len(call'.data))).err
        /\ TheFsm.state # "Closed"
        => \E opts \in {parse_options(SubSeq(call'.data, 7, Len(call'.data))).opts} :
           \E vs \in {{ peer_option_received(call.to, TheFsm.proto,
                                            opts[i].code, opts[i].data).verdict :
                        i \in 1..Len(opts) }} :
           \E win \in {IF "Rej" \in vs THEN "Rej"
                       ELSE IF "Nack" \in vs THEN "Nack" ELSE "Ack"} :
               /\ panicked' = "none"
               /\ Len(tx') >= 1
               /\ tx'[1] = Packet_PPP_Options(call.to, verdict_code(win), call'.data[4],
                               WinningOptions(call.to, TheFsm.proto, opts, win))
      ]_vars

\* a Configure-Req or a Protocol-Reject
IsRequest(p) == p.kind = "PPP" /\ p.code \in {Code_ConfigureReq, Code_ProtocolRej}

RECURSIVE Requests_of(_)
\* the Configure-Reqs and Protocol-Rejects of the packets out, in order
Requests_of(out) ==
    IF out = <<>> THEN <<>>
    ELSE (IF IsRequest(Head(out)) THEN <<Head(out)>> ELSE <<>>) \o Requests_of(Tail(out))

\* C21: the id counter starts at 1; the Configure-Reqs and Protocol-Rejects a
\* call emits carry the ids that follow the counter, modulo 256, and the
\* counter ends on the last of them; a Configure-Ack/Nack/Rej, a Terminate-Ack
\* and an Echo-Reply carry the id of the inbound packet; what handle does is
\* the same whatever the counter.
C21_IdHandling ==
    /\ TheFsm.id = 1
    /\ [][ call'.op \in {"fsm_open", "fsm_handle", "fsm_reject"} /\ panicked' = "none"
           => /\ \E reqs \in {Requests_of(tx')} :
                     /\ \A i \in 1..Len(reqs) : reqs[i].id = (TheFsm.id + i) % 256
                     /\ TheFsm'.id = (TheFsm.id + Len(reqs)) % 256
              /\ \A i \in 1..Len(tx') :
                     \/ IsRequest(tx'[i])
                     \/ /\ tx'[i].kind = "PPP"
                        /\ tx'[i].code \in {Code_ConfigureAck, Code_ConfigureNack,
                                            Code_ConfigureRej, Code_TerminateAck}
                        /\ tx'[i].id = call'.data[4]
                     \/ /\ tx'[i].kind = "Raw"
                        /\ tx'[i].data[1] = Code_EchoReply
                        /\ tx'[i].data[2] = call'.data[4]
              /\ call'.op = "fsm_handle"
                 => \E h \in {handle(call.to, [TheFsm EXCEPT !.id = 1], call'.data)} :
                        /\ h.fsm.state = TheFsm'.state
                        /\ h.fsm.proto = TheFsm'.proto
                        /\ Len(h.tx) = Len(tx')
         ]_vars

\* the counter has gone round: a Configure-Req with id 0 is out, which the
\* 255th request of the machine carries
C21_WrappedToZero ==
    /\ call.op = "fsm_handle"
    /\ panicked = "none"
    /\ TheFsm.id = 0
    /\ Len(tx) >= 1
    /\ tx[Len(tx)].kind = "PPP"
    /\ tx[Len(tx)].code = Code_ConfigureReq
    /\ tx[Len(tx)].id = 0

\* C22 as stated: whatever byte between the two flags of an encoded frame is
\* changed, to whatever other value, the reader exposes no frame for the bytes.
C22_AnyChangeDropped ==
    txlog # <<>> /\ call.op \in {"reader_consume", "reader_receive"}
    => /\ fr.state # "Complete"
       /\ call.op = "reader_receive" => ~call.ok

\* C22: when one byte between the two flags of an encoded frame is changed,
\* neither the byte nor its new value being the flag 0x7E or the escape byte
\* 0x7D, the reader takes all the bytes and exposes no frame for them.
C22_ChangeDropped ==
    /\ txlog # <<>>
    /\ call.op \in {"reader_consume", "reader_receive"}
    /\ txlog[2] \notin {125, 126}
    /\ txlog[3] \notin {125, 126}
    => /\ fr.state # "Complete"
       /\ wire = <<>>
       /\ call.op = "reader_receive" => ~call.ok

\* the last byte of the payload 00 21 01, written unescaped, was changed from
\* 01 to 02 and receive() has returned None
C22_PayloadByteChanged ==
    /\ call.op = "reader_receive"
    /\ ~call.ok
    /\ script = << <<0, 33, 1>> >>
    /\ fw.asyncmap = U32(0, 0)
    /\ txlog = <<6, 1, 2>>

\* C23: bytes none of which is 0x7E, fed to the reader before the first flag,
\* are consumed in full, store nothing in the RX buffer and leave the reader
\* in state Start with no frame to surface; the frame that follows them is
\* consumed in full and receive() hands out exactly its payload.
C23_GarbageTolerated ==
    [][ /\ call'.op = "garbage"
           => /\ call'.n = Len(call'.data)
              /\ fr' = FrameReader_new
              /\ rx_buf'.buf = <<>>
              /\ ~FrameReader_receive(fr').some
        /\ /\ txlog = <<>>
           /\ \A i \in 1..Len(processed) : \A j \in 1..Len(processed[i]) : processed[i][j] # 126
           => /\ call'.op = "reader_consume" => call'.n = Len(call'.data) /\ wire' = <<>>
              /\ call'.op = "reader_receive" => call'.ok /\ call'.data = script[1]
      ]_vars

\* the escape byte, then an address and a control byte, were fed before the
\* frame of the payload 7E 7D, which receive() has handed out
C23_FrameAfterGarbage ==
    /\ call.op = "reader_receive"
    /\ call.ok
    /\ processed = << <<125>>, <<255, 3>> >>
    /\ script = << <<126, 125>> >>
    /\ call.data = <<126, 125>>

\* C25: a frame that is not valid (too short, wrong control byte, wrong FCS,
\* or with the escape byte before the closing flag) leaves the reader with
\* len = 0 and the escape flag clear, and exposes nothing; the valid frame fed
\* right after it is consumed whole and receive() hands out exactly its payload.
C25_RecoveryAfterDrop ==
    [][ /\ call'.op = "invalid"
           => /\ call'.n = Len(call'.data)
              /\ fr'.state = "Address"
              /\ fr'.len = 0
              /\ ~fr'.escape
        /\ /\ Len(processed) = 1
           /\ processed[1] \in InvalidFrames
           => /\ call'.op = "reader_consume" => call'.n = Len(call'.data)
              /\ call'.op = "reader_receive" => call'.ok /\ call'.data = script[1]
      ]_vars

\* C24: whatever the calls and the inbound frames, when poll calls open() on
\* LCP, PAP or IPv4CP the machine is Closed: the assertion of open() never fails.
C24_OpenPrecondition ==
    panicked # "assertion failed: self.state == State::Closed"

\* PAP was opened a second time, by the poll that took the session from
\* Establish to Auth after it had dropped to Dead and was opened again
C24_PapOpenedAgain ==
    /\ call.op = "poll"
    /\ panicked = "none"
    /\ phase = "Auth"
    /\ pap.state = "ReqSent"
    /\ pap.id = 3
    /\ lcp.id = 3
    /\ Len(tx) >= 1
    /\ tx[Len(tx)].proto = "PAP"
    /\ tx[Len(tx)].id = 3

\* C26: no inbound Configure-Req, Configure-Nack or Configure-Rej makes the
\* response or the next request exceed the option list of 6 entries or the
\* option data of 4 bytes: the panics of the full list and of OptionVal::new
\* are not reached.
C26_OptionBounds ==
    panicked \notin { "OptionVal::new",
                      "rx ConfigureReq: too many options",
                      "tx ConfigureReq: too many options" }

\* C27: with a user name and a password of at most 255 bytes each and inbound
\* frames that fit the RX buffer, every packet emitted during poll fits the
\* staging buffer of 128 bytes: the assertion len <= buf.len() never fails.
C27_StagingFits ==
    panicked # "assertion failed: len <= buf.len()"

\* the packets out are one packet with the code c
OnlyPacket(out, c) == Len(out) = 1 /\ out[1].kind = "PPP" /\ out[1].code = c

\* the packets out are a response with the code c, then a new Configure-Req
ThenRequest(out, c) ==
    /\ Len(out) = 2
    /\ out[1].kind = "PPP" /\ out[1].code = c
    /\ out[2].kind = "PPP" /\ out[2].code = Code_ConfigureReq

\* C28: outside Closed, a Configure-Req that is acked moves ReqSent to
\* AckSent, AckReceived to Opened, AckSent to AckSent and Opened to AckSent
\* with a new Configure-Req; one that is nacked or rejected leaves ReqSent and
\* AckReceived, and moves AckSent to ReqSent and Opened to ReqSent with a new
\* Configure-Req; a Configure-Ack moves ReqSent to AckReceived, AckSent to
\* Opened, and AckReceived and Opened to ReqSent with a new Configure-Req.
\* The response to a Configure-Req comes before the new Configure-Req.
C28_ConfigureTransitions ==
    [][ call'.op = "fsm_handle" /\ panicked' = "none" /\ TheFsm.state # "Closed"
        => \E s \in {TheFsm.state} : \E t \in {TheFsm'.state} :
           /\ call'.data[3] = Code_ConfigureReq
              => \E c \in {Code_ConfigureAck, Code_ConfigureNack, Code_ConfigureRej} :
                 /\ Len(tx') >= 1 /\ tx'[1].kind = "PPP" /\ tx'[1].code = c
                 /\ tx'[1].id = call'.data[4]
                 /\ c = Code_ConfigureAck
                    => /\ s = "ReqSent" => t = "AckSent" /\ OnlyPacket(tx', c)
                       /\ s = "AckReceived" => t = "Opened" /\ OnlyPacket(tx', c)
                       /\ s = "AckSent" => t = "AckSent" /\ OnlyPacket(tx', c)
                       /\ s = "Opened" => t = "AckSent" /\ ThenRequest(tx', c)
                 /\ c # Code_ConfigureAck
                    => /\ s = "ReqSent" => t = "ReqSent" /\ OnlyPacket(tx', c)
                       /\ s = "AckReceived" => t = "AckReceived" /\ OnlyPacket(tx', c)
                       /\ s = "AckSent" => t = "ReqSent" /\ OnlyPacket(tx', c)
                       /\ s = "Opened" => t = "ReqSent" /\ ThenRequest(tx', c)
           /\ call'.data[3] = Code_ConfigureAck
              => /\ s = "ReqSent" => t = "AckReceived" /\ tx' = <<>>
                 /\ s = "AckSent" => t = "Opened" /\ tx' = <<>>
                 /\ s \in {"AckReceived", "Opened"}
                    => t = "ReqSent" /\ OnlyPacket(tx', Code_ConfigureReq)
      ]_vars

\* an Opened machine has nacked or rejected a Configure-Req: the response is
\* out, a new Configure-Req after it, and the machine is in ReqSent
C28_RenegotiatedFromOpened ==
    /\ call.op = "fsm_handle"
    /\ panicked = "none"
    /\ call.data[3] = Code_ConfigureReq
    /\ TheFsm.state = "ReqSent"
    /\ Len(tx) = 2
    /\ tx[1].code \in {Code_ConfigureNack, Code_ConfigureRej}
    /\ tx[2].code = Code_ConfigureReq

\* C29: outside Closed, a Configure-Nack or Configure-Rej has every option
\* of the packet passed to own_option_nacked, in order, with is_rej true for
\* a Rej; then exactly one new Configure-Req is emitted, which carries the
\* options as they are after that; the state becomes ReqSent from ReqSent,
\* AckReceived and Opened, and stays AckSent.
C29_NackHandling ==
    [][ /\ call'.op = "fsm_handle" /\ panicked' = "none" /\ TheFsm.state # "Closed"
        /\ call'.data[3] \in {Code_ConfigureNack, Code_ConfigureRej}
        => \E after \in {own_options_nacked_fold(call.to, TheFsm.proto,
                             parse_options(SubSeq(call'.data, 7, Len(call'.data))).opts,
                             call'.data[3] = Code_ConfigureRej)} :
           /\ TheFsm'.proto = after
           /\ tx' = <<Packet_PPP_Options(call.to, Code_ConfigureReq,
                                         (TheFsm.id + 1) % 256, own_options(call.to, after))>>
           /\ TheFsm'.id = (TheFsm.id + 1) % 256
           /\ TheFsm'.state = IF TheFsm.state = "AckSent" THEN "AckSent" ELSE "ReqSent"
           /\ call.to = "IPv4CP" /\ call'.data[3] = Code_ConfigureNack
              => /\ after.address.address = <<10, 0, 0, 2>>
                 /\ after.dns_server_1.address = <<8, 8, 8, 8>>
           /\ call.to = "IPv4CP" /\ call'.data[3] = Code_ConfigureRej
              => after.address.is_rejected /\ after.dns_server_1.is_rejected
           /\ call.to = "LCP"
              => IF call'.data[3] = Code_ConfigureNack
                 THEN after.asyncmap = u32_from_be_bytes(<<0, 0, 0, 10>>)
                 ELSE after.asyncmap_rej
      ]_vars

\* IPv4CP in AckSent has taken a Configure-Nack of its address and of its
\* first DNS server: the new request asks for the two values of the Nack and
\* the machine is still in AckSent
C29_NackedValuesRequested ==
    /\ call.op = "fsm_handle"
    /\ call.to = "IPv4CP"
    /\ panicked = "none"
    /\ call.data[3] = Code_ConfigureNack
    /\ TheFsm.state = "AckSent"
    /\ Len(tx) = 1
    /\ tx[1].code = Code_ConfigureReq
    /\ tx[1].opts = <<OptionVal(3, <<10, 0, 0, 2>>), OptionVal(129, <<8, 8, 8, 8>>),
                      OptionVal(131, <<0, 0, 0, 0>>)>>

\* C30: in every state a Terminate-Req is answered with exactly one
\* Terminate-Ack that carries the id of the request; the state becomes Closed
\* from Opened, ReqSent from ReqSent, AckReceived and AckSent, and stays
\* Closed; no Configure-Req is sent and the id counter stays.
C30_TerminateReq ==
    [][ call'.op = "fsm_handle" /\ call'.data[3] = Code_TerminateReq
        => /\ panicked' = "none"
           /\ tx' = <<Packet_PPP_Raw(call.to, Code_TerminateAck, call'.data[4], <<>>)>>
           /\ TheFsm'.state = CASE TheFsm.state = "Opened" -> "Closed"
                                [] TheFsm.state = "Closed" -> "Closed"
                                [] OTHER -> "ReqSent"
           /\ TheFsm'.id = TheFsm.id
           /\ TheFsm'.proto = TheFsm.proto
      ]_vars

\* a Terminate-Req with id 255 has been answered while the negotiation was
\* under way: the Terminate-Ack with id 255 is the only packet out, the
\* machine is in ReqSent and its only request is still the one with id 2
C30_TerminatedWhileNegotiating ==
    /\ call.op = "fsm_handle"
    /\ call.data[3] = Code_TerminateReq
    /\ call.data[4] = 255
    /\ TheFsm.state = "ReqSent"
    /\ TheFsm.id = 2
    /\ Len(tx) = 1
    /\ tx[1].code = Code_TerminateAck
    /\ tx[1].id = 255

\* pkt passes the two length tests at the head of handle
WellFormed(pkt) ==
    Len(pkt) >= 6 /\ u16_from_be_bytes(SubSeq(pkt, 5, 6)) + 2 <= Len(pkt)

\* the call has emitted nothing and has left the machine as it was
Ignored == tx' = <<>> /\ TheFsm' = TheFsm /\ panicked' = "none"

\* C31: in Closed every well-formed packet but an Echo-Req and a Discard-Req,
\* unknown codes included, is answered with a Terminate-Ack that carries the
\* id of the packet, and the state stays Closed; an Echo-Req outside Opened
\* and a Discard-Req in any state give no output and no change; outside
\* Closed a Terminate-Ack, a Code-Rej, a Protocol-Rej, an Echo-Reply and an
\* unknown code give no output and no change.
C31_ClosedAndIgnored ==
    [][ call'.op = "fsm_handle" /\ Len(call'.data) >= 6
        => \E code \in {call'.data[3]} :
           /\ TheFsm.state = "Closed" /\ WellFormed(call'.data)
              /\ code \notin {Code_EchoReq, Code_DiscardReq}
              => /\ tx' = <<Packet_PPP_Raw(call.to, Code_TerminateAck, call'.data[4], <<>>)>>
                 /\ TheFsm' = TheFsm
                 /\ panicked' = "none"
           /\ code = Code_EchoReq /\ TheFsm.state # "Opened" => Ignored
           /\ code = Code_DiscardReq => Ignored
           /\ TheFsm.state # "Closed"
              /\ \/ code \in {Code_TerminateAck, Code_CodeRej, Code_ProtocolRej,
                              Code_EchoReply}
                 \/ code \notin Code_ConfigureReq..Code_DiscardReq
              => Ignored
      ]_vars

\* an Opened machine has been handed an Echo-Reply: nothing is out and the
\* machine is still Opened
C31_EchoReplyIgnored ==
    /\ call.op = "fsm_handle"
    /\ call.data[3] = Code_EchoReply
    /\ TheFsm.state = "Opened"
    /\ tx = <<>>
    /\ panicked = "none"

\* C32: a poll that runs the phase step ends in phase Dead if LCP is Closed
\* then; an LCP Terminate-Req taken in Opened drops the phase to Dead in the
\* same poll from Auth, Network and Open; phase Dead implies LCP Closed in
\* every state; LCP is Closed in another phase only between open() and the
\* phase step of the next poll, which is when opening is set.
C32_ReturnToDead ==
    /\ [](panicked = "none"
          => /\ phase = "Dead" => lcp.state = "Closed"
             /\ lcp.state = "Closed" /\ phase # "Dead"
                => opening /\ phase = "Establish"
             /\ lcp.state = "Closed" /\ phase # "Dead" /\ call.op = "poll"
                => call.kind = "Received")
    /\ [][ call'.op = "poll" /\ call'.stepped /\ panicked' = "none"
           => /\ lcp'.state = "Closed" => phase' = "Dead"
              /\ ~opening'
              /\ /\ lcp.state = "Opened" /\ call'.to = "LCP"
                 /\ WellFormed(call'.data) /\ call'.data[3] = Code_TerminateReq
                 /\ phase \in {"Auth", "Network", "Open"}
                 => phase' = "Dead" /\ lcp'.state = "Closed"
         ]_vars

\* the session was up, IPv4CP being Opened, and the poll that took an LCP
\* Terminate-Req has left it in phase Dead
C32_DroppedFromOpen ==
    /\ call.op = "poll"
    /\ call.to = "LCP"
    /\ call.data[3] = Code_TerminateReq
    /\ phase = "Dead"
    /\ lcp.state = "Closed"
    /\ ipv4cp.state = "Opened"
    /\ panicked = "none"

\* the PPP and the packets out once the frame pkt of a poll has been handled,
\* before the phase step (no frame: pkt is empty)
AfterFrame(p, cfg, pkt) ==
    IF pkt = <<>> THEN Stepped(p, <<>>, "none", pkt, "none") ELSE PPP_received(p, cfg, pkt)

\* C33: the phase step of a poll in phase Establish opens LCP, emitting its
\* Configure-Req, iff LCP is Closed; with LCP Opened it opens IPv4CP and sets
\* phase Network when LCP.auth is None, and opens PAP and sets phase Auth when
\* it is PAP; otherwise it closes PAP and IPv4CP, so that both are Closed
\* after every such poll that ends in phase Establish.
C33_EstablishStep ==
    [][ call'.op = "poll" /\ call'.stepped /\ phase = "Establish"
        => \E m \in {AfterFrame(ThePPP, config, call'.data)} :
           \E step \in {SubSeq(tx', Len(m.tx) + 1, Len(tx'))} :
           /\ panicked' # "assertion failed: self.state == State::Closed"
           /\ panicked' = "none"
              => /\ m.ppp.lcp.state = "Closed"
                    => /\ step = <<Packet_PPP_Options("LCP", Code_ConfigureReq,
                                       (m.ppp.lcp.id + 1) % 256,
                                       own_options("LCP", m.ppp.lcp.proto))>>
                       /\ lcp'.state = "ReqSent"
                 /\ m.ppp.lcp.state # "Closed"
                    => /\ lcp' = m.ppp.lcp
                       /\ \A i \in 1..Len(step) :
                              ~(step[i].proto = "LCP" /\ step[i].code = Code_ConfigureReq)
                 /\ m.ppp.lcp.state = "Opened" /\ m.ppp.lcp.proto.auth = "None"
                    => /\ phase' = "Network"
                       /\ ipv4cp'.state = "ReqSent"
                       /\ pap' = m.ppp.pap
                       /\ Len(step) = 1 /\ step[1].proto = "IPv4CP"
                       /\ step[1].code = Code_ConfigureReq
                 /\ m.ppp.lcp.state = "Opened" /\ m.ppp.lcp.proto.auth = "PAP"
                    => /\ phase' = "Auth"
                       /\ pap'.state = "ReqSent"
                       /\ ipv4cp' = m.ppp.ipv4cp
                       /\ Len(step) = 1 /\ step[1].proto = "PAP"
                       /\ step[1].code = Code_ConfigureReq
                 /\ m.ppp.lcp.state # "Opened"
                    => /\ phase' = "Establish"
                       /\ pap'.state = "Closed"
                       /\ ipv4cp'.state = "Closed"
                 /\ phase' = "Establish"
                    => pap'.state = "Closed" /\ ipv4cp'.state = "Closed"
      ]_vars

\* the poll that took the Configure-Ack which opened LCP, the peer having
\* asked for PAP, has sent the Authenticate-Request and set phase Auth
C33_AuthEntered ==
    /\ call.op = "poll"
    /\ call.to = "LCP"
    /\ call.data[3] = Code_ConfigureAck
    /\ phase = "Auth"
    /\ lcp.state = "Opened"
    /\ pap.state = "ReqSent"
    /\ Len(tx) = 1
    /\ tx[1].proto = "PAP"
    /\ panicked = "none"

\* C34: after any calls of open, consume and poll, status().ipv4 is Some iff
\* status().phase is Open; phase Open implies that LCP and IPv4CP are both
\* Opened, and phase Dead implies that status().ipv4 is None.
C34_OpenIffIpv4 ==
    panicked = "none"
    => \E st \in {PPP_status(ThePPP)} :
       /\ st.ipv4.some <=> st.phase = "Open"
       /\ st.phase = "Open" => lcp.state = "Opened" /\ ipv4cp.state = "Opened"
       /\ st.phase = "Dead" => ~st.ipv4.some

\* C35: with a lossless link, a caller that keeps feeding consume and calling
\* poll, and a peer that acks our requests after assigning the addresses with
\* a Nack, sends acceptable Configure-Reqs for LCP and IPv4CP and sends them
\* again when answered with a Terminate-Ack, acks PAP if it asked for it and
\* never terminates, the phase becomes Open after open().
C35_EventuallyOpen ==
    (phase = "Establish") ~> (phase = "Open" /\ panicked = "none")

\* the session is Open after an authentication with PAP, with the address
\* the peer assigned
C35_OpenAfterPap ==
    /\ phase = "Open"
    /\ pap.state = "Opened"
    /\ lcp.state = "Opened"
    /\ ipv4cp.state = "Opened"
    /\ ipv4cp.proto.address.address = <<10, 0, 0, 2>>
    /\ panicked = "none"

\* the bytes of the Authenticate-Request with the id given
AuthenticateRequest(cfg, id) ==
    PPap \o <<1, id>>
    \o u16_to_be_bytes(4 + 1 + Len(cfg.username) + 1 + Len(cfg.password))
    \o <<Len(cfg.username)>> \o cfg.username \o <<Len(cfg.password)>> \o cfg.password

\* C36: PAP::open from Closed moves to ReqSent and emits an
\* Authenticate-Request, code 1 with the next id and the body [len(user),
\* user, len(pass), pass]; a packet of code 2 moves ReqSent to Opened with no
\* output; a packet of code 3 in ReqSent emits the request again with the
\* next id and stays in ReqSent; every other pair of code and state, a code 2
\* in Closed among them, changes nothing and emits nothing; close moves to
\* Closed from any state.
C36_PapFsm ==
    [][ /\ call'.op = "pap_open" /\ pap.state = "Closed"
           => /\ panicked' = "none"
              /\ pap' = [state |-> "ReqSent", id |-> (pap.id + 1) % 256]
              /\ Len(tx') = 1
              /\ Packet_emit(tx'[1]) = AuthenticateRequest(config, (pap.id + 1) % 256)
        /\ call'.op = "pap_handle" /\ WellFormed(call'.data)
           => /\ panicked' = "none"
              /\ CASE call'.data[3] = 2 /\ pap.state = "ReqSent" ->
                          pap' = [pap EXCEPT !.state = "Opened"] /\ tx' = <<>>
                   [] call'.data[3] = 3 /\ pap.state = "ReqSent" ->
                          /\ pap' = [state |-> "ReqSent", id |-> (pap.id + 1) % 256]
                          /\ Len(tx') = 1
                          /\ Packet_emit(tx'[1])
                                 = AuthenticateRequest(config, (pap.id + 1) % 256)
                   [] OTHER -> pap' = pap /\ tx' = <<>>
        /\ call'.op = "pap_close"
           => pap' = [pap EXCEPT !.state = "Closed"] /\ tx' = <<>> /\ panicked' = "none"
      ]_vars

\* the request was sent again after an Authenticate-Nak: it carries id 3 and
\* the user name and the password of two bytes each
C36_RequestSentAgain ==
    /\ call.op = "pap_handle"
    /\ call.data[3] = 3
    /\ pap = [state |-> "ReqSent", id |-> 3]
    /\ Len(tx) = 1
    /\ Packet_emit(tx[1]) = <<192, 35, 1, 3, 0, 10, 2, 117, 115, 2, 112, 119>>

\* the verdict on the option o of a peer's LCP Configure-Req
LcpVerdict(o) ==
    IF o.code = 3 THEN (IF o.data = <<192, 35>> THEN "Ack" ELSE "Nack")
    ELSE IF o.code = 2 /\ Len(o.data) = 4 THEN "Ack"
    ELSE "Rej"

\* C37: after a peer's LCP Configure-Req is processed, LCP.auth is PAP iff
\* the request holds an Auth-Protocol option with the data C0 23, and None
\* otherwise, whatever it was before; an Auth-Protocol option with other
\* data is nacked with the data C0 23, an Asyncmap option of 4 bytes is acked
\* and any other option or length is rejected.
C37_AuthPerRound ==
    [][ /\ call'.op = "fsm_handle" /\ call.to = "LCP" /\ panicked' = "none"
        /\ lcp.state # "Closed" /\ call'.data[3] = Code_ConfigureReq
        => \E opts \in {parse_options(SubSeq(call'.data, 7, Len(call'.data))).opts} :
           \E vs \in {{LcpVerdict(opts[i]) : i \in 1..Len(opts)}} :
           \E win \in {IF "Rej" \in vs THEN "Rej" ELSE IF "Nack" \in vs THEN "Nack" ELSE "Ack"} :
           \E sel \in {SelectSeq(opts, LAMBDA o : LcpVerdict(o) = win)} :
           /\ lcp'.proto.auth = IF \E i \in 1..Len(opts) : opts[i] = OptionVal(3, <<192, 35>>)
                                THEN "PAP" ELSE "None"
           /\ Len(tx') >= 1
           /\ tx'[1].code = CASE win = "Ack" -> Code_ConfigureAck
                              [] win = "Nack" -> Code_ConfigureNack
                              [] win = "Rej" -> Code_ConfigureRej
           /\ tx'[1].opts = [i \in 1..Len(sel) |->
                                IF win = "Nack" THEN OptionVal(3, <<192, 35>>) ELSE sel[i]]
      ]_vars

\* LCP, which had agreed to PAP and was Opened, has nacked a Configure-Req
\* that asks for CHAP: the Nack suggests C0 23 and auth is None again
C37_AuthForgotten ==
    /\ call.op = "fsm_handle"
    /\ call.to = "LCP"
    /\ call.data = Ctl(PLcp, 1, 255, 9, <<3, 5, 194, 35, 5>>)
    /\ lcp.proto.auth = "None"
    /\ Len(tx) = 2
    /\ tx[1].code = Code_ConfigureNack
    /\ tx[1].opts = <<OptionVal(3, <<192, 35>>)>>
    /\ tx[2].code = Code_ConfigureReq
    /\ panicked = "none"

\* C38: a peer's Configure-Req that is answered with Configure-Nack or
\* Configure-Rej leaves LCP.asyncmap_remote, and for IPv4CP peer_address, as
\* they were before the request; only a request that is answered with
\* Configure-Ack changes them.
C38_PeerValuesOnAckOnly ==
    [][ /\ call'.op = "fsm_handle" /\ panicked' = "none"
        /\ TheFsm.state # "Closed" /\ call'.data[3] = Code_ConfigureReq
        /\ Len(tx') >= 1 /\ tx'[1].code \in {Code_ConfigureNack, Code_ConfigureRej}
        => IF call.to = "LCP"
           THEN lcp'.proto.asyncmap_remote = lcp.proto.asyncmap_remote
           ELSE ipv4cp'.proto.peer_address = ipv4cp.proto.peer_address
      ]_vars

\* the options a request of P holds when the codes in refused were refused and
\* vals are the values last proposed
RECURSIVE OwnExpected(_, _, _)
OwnExpected(cs, refused, vals) ==
    IF cs = <<>> THEN <<>>
    ELSE (IF Head(cs) \in refused THEN <<>> ELSE <<OptionVal(Head(cs), vals[Head(cs)])>>)
         \o OwnExpected(Tail(cs), refused, vals)

\* C39: once an own option (IPv4CP IP-Address, Primary-DNS, Secondary-DNS, LCP
\* Asyncmap) was Configure-Rejected, or Configure-Nacked with data that is not
\* 4 bytes, no Configure-Req the FSM emits afterwards holds it, also after the
\* FSM was closed and opened again; an option that was never refused is in
\* every Configure-Req, with the value of the last 4-byte Configure-Nack, or
\* with zero when there was none.
C39_RejectionPermanent ==
    \A i \in DOMAIN tx :
        tx[i].kind = "PPP" /\ tx[i].code = Code_ConfigureReq
        => tx[i].opts = OwnExpected(OwnCodes(call.to), processed, txlog)

\* IPv4CP is opened again after Primary-DNS was refused and an address was
\* proposed: the request holds the address and Secondary-DNS only
C39_ReopenedWithoutRejected ==
    /\ call.op = "fsm_open" /\ call.to = "IPv4CP" /\ panicked = "none"
    /\ processed = {129} /\ ipv4cp.id >= 4
    /\ Len(tx) = 1 /\ tx[1].code = Code_ConfigureReq
    /\ tx[1].opts = <<OptionVal(3, <<10, 0, 0, 2>>), OptionVal(131, <<0, 0, 0, 0>>)>>

\* the update as stated, with every intermediate value taken modulo 2^16
CrcStated(seed, b) ==
    LET e == Xor16(seed, b) % 256
        f == Xor16(e, (e * 16) % 65536)
    IN  Xor16(Xor16(Xor16(seed \div 256, (f * 256) % 65536), (f * 8) % 65536), f \div 16)

\* the update with f taken modulo 2^8
CrcStated8(seed, b) ==
    LET e == Xor16(seed, b) % 256
        f == Xor16(e, (e * 16) % 65536) % 256
    IN  Xor16(Xor16(Xor16(seed \div 256, (f * 256) % 65536), (f * 8) % 65536), f \div 16)

\* C40 as stated: crc16(seed, [b]) is, with e = (seed ^ b) & 0xff and
\* f = e ^ (e << 4), the value (seed >> 8) ^ (f << 8) ^ (f << 3) ^ (f >> 4),
\* all arithmetic modulo 2^16.
C40_PerByteUpdate ==
    call.op = "crc16" => call.n = CrcStated(call.start, call.data[1])

\* C40, amended: crc16(seed, [b]) is, with e = (seed ^ b) & 0xff and
\* f = (e ^ (e << 4)) & 0xff, the value (seed >> 8) ^ (f << 8) ^ (f << 3) ^
\* (f >> 4) modulo 2^16; and crc16(0xFFFF, [0xFF]) is 0x00FF.
C40_PerByteUpdateU8 ==
    call.op = "crc16"
    => /\ call.n = CrcStated8(call.start, call.data[1])
       /\ (call.start = 65535 /\ call.data = <<255>> => call.n = 255)

\* crc16(0, [0x10]) is 0x1081: e << 4 is 0x100 and leaves no bit in f
C40_ShiftedOut ==
    call.op = "crc16" /\ call.start = 0 /\ call.data = <<16>> /\ call.n = 4225

====
